---- MODULE Spec2Model ----
(***************************************************************************)
(* Alert orchestration and photo relay of the ESP32-S3 security node:      *)
(* the PIR interrupt handler and its debounce flag (motion module), the    *)
(* alert task with its cooldown (taskAlert), the weather gate              *)
(* (Alerts::checkWeatherAlerts, run by taskSensor) and the Telegram        *)
(* sender (Telegram::sendAlert).  Each task is a process with a program    *)
(* counter; one action is one step of the code between two points where    *)
(* the interrupt or the other task can run.                                *)
(*                                                                         *)
(* Time is the value of millis(), in milliseconds.  The clock is read on a *)
(* finite grid of instants built from the program's own constants, so that *)
(* gaps of exactly, one less and one more than each constant occur.  The   *)
(* 32-bit wrap of millis() (after 2^32 ms) lies beyond every grid.         *)
(***************************************************************************)
EXTENDS Integers, Sequences, FiniteSets, TLC

VARIABLES
  millis,           \* the value millis() returns now
  motionFlag,       \* volatile bool motionFlag
  lastTriggerTime,  \* volatile unsigned long lastTriggerTime
  lastEdge,         \* history: how the latest interrupt edge stood to the one accepted before it
  lastAlertTime,    \* taskAlert: unsigned long lastAlertTime
  alertNow,         \* taskAlert: unsigned long now (line 117)
  photoURL,         \* taskAlert: String photoURL (line 123)
  mockMode,         \* CameraClient: static bool mockMode
  mockCaptureCount, \* CameraClient: static int mockCaptureCount
  accepts,          \* history: acceptance times of the latest two motion-alert sequences
  observed,         \* history: how the latest observed motion stood to the cooldown
  tg,               \* per task: the locals of its running Telegram::sendAlert call
  mp,               \* sendAlert: the locals of the multipart assembly (lines 389-420)
  rd,               \* sendAlert: the locals of the image read loop (lines 299-363)
  boot,             \* setup(): how far Scheduler::initTasks has got
  sent,             \* history, per task: the request that delivered its latest returned call
  passed,           \* history, per task: how far the other task got during its latest call
  mqttLog,          \* history, per task: the dashboard publishes of the current handler call
  data,             \* taskSensor: auto data (SensorData: temp, hum)
  xLastWakeTime,    \* taskSensor: TickType_t xLastWakeTime, in ms
  cycles,           \* history: how many times taskSensor has reached vTaskDelayUntil
  tempAlertSent,    \* bool Alerts::tempAlertSent
  humAlertSent,     \* bool Alerts::humAlertSent
  did,              \* history, per metric: what the gate did for the metric's latest sample
  gate,             \* history, per metric: where the samples so far stand in a crossing
  pc,               \* per task: the point the task is at
  wake,             \* per task: the time a pending vTaskDelay/delay ends
  resume            \* per task: the point to continue at after the delay

motionVars == <<motionFlag, lastTriggerTime, lastEdge>>
alertVars  == <<lastAlertTime, alertNow, photoURL, mockMode, mockCaptureCount, accepts, observed>>
sendVars   == <<tg, sent, passed>>
taskVars   == <<pc, wake, resume>>
weatherVars == <<data, xLastWakeTime, cycles, tempAlertSent, humAlertSent, did, gate>>
vars == <<millis, motionVars, alertVars, sendVars, mp, rd, boot, mqttLog, weatherVars, taskVars>>

----------------------------------------------------------------------------
(* Program constants *)

DEBOUNCE_MS       == 5000     \* onMotion: now - lastTriggerTime > 5000
ALERT_COOLDOWN    == 60000    \* taskAlert: const unsigned long ALERT_COOLDOWN
ALERT_POLL_MS     == 1000     \* taskAlert: vTaskDelay(pdMS_TO_TICKS(1000))
MQTT_SPACING_MS   == 1000     \* handleMotionAlert / checkWeatherAlerts: vTaskDelay(1000)

(* Bounds of the model *)

MaxCooldowns == 2    \* the motion clock grid spans this many cooldown intervals

Tasks == {"alert", "sensor"}

\* The instants at which the motion specification reads the clock: around every
\* multiple of the cooldown, one millisecond before it, at it, and a debounce
\* window and one millisecond more after it.
MotionInstants ==
  { t \in { a * ALERT_COOLDOWN + d :
              a \in 0..MaxCooldowns, d \in {-1, 0, DEBOUNCE_MS, DEBOUNCE_MS + 1} } : t >= 0 }

----------------------------------------------------------------------------
(* Strings.  An Arduino String is the sequence of its characters. *)

S_HTTP       == <<"h", "t", "t", "p", ":", "/", "/">>
S_HTTPS      == <<"h", "t", "t", "p", "s", ":", "/", "/">>
S_SCHEME_END == <<":", "/", "/">>
S_MOTION ==
  <<"M", "o", "t", "i", "o", "n", " ", "d", "e", "t", "e", "c", "t", "e", "d">>
CAM_IP == <<"1", "0", ".", "2", "8", ".", "1", "5", "8", ".", "7", "1">>
S_JPG  == <<"/", "j", "p", "g">>
S_PICSUM ==
  <<"h", "t", "t", "p", "s", ":", "/", "/", "p", "i", "c", "s", "u", "m", ".", "p", "h",
    "o", "t", "o", "s", "/", "6", "4", "0", "/", "4", "8", "0", "?", "r", "a", "n", "d",
    "o", "m", "=">>
S_JSON_OPEN  == <<"{", "\"", "u", "r", "l", "\"", ":", "\"">>
S_JSON_CLOSE == <<"\"", "}">>
S_URL        == <<"u", "r", "l">>
S_EMPTY      == <<>>

Digits == <<"0", "1", "2", "3", "4", "5", "6", "7", "8", "9">>

\* String(n) for an int n >= 0.
RECURSIVE DecStr(_)
DecStr(n) ==
  IF n < 10 THEN <<Digits[n + 1]>> ELSE DecStr(n \div 10) \o <<Digits[(n % 10) + 1]>>

\* String::startsWith
StartsWith(u, prefix) ==
  /\ Len(u) >= Len(prefix)
  /\ SubSeq(u, 1, Len(prefix)) = prefix

\* String::indexOf, 0-based; -1 when the pattern does not occur.
IndexOf(u, pat) ==
  LET hits == { i \in 1..(Len(u) - Len(pat) + 1) : SubSeq(u, i, i + Len(pat) - 1) = pat }
  IN IF hits = {} THEN -1 ELSE (CHOOSE i \in hits : \A j \in hits : i <= j) - 1

\* String::substring(from) and substring(from, to), 0-based, to exclusive.
SubstringFrom(u, from) == SubSeq(u, from + 1, Len(u))
Substring(u, from, to) == SubSeq(u, from + 1, to)

\* The second octets 16..31 of 172.16.0.0/12, as the lambda spells them out.
PrivatePrefixes ==
  { <<"1", "0", ".">>,
    <<"1", "9", "2", ".", "1", "6", "8", ".">>,
    <<"1", "2", "7", ".">> }
  \cup { <<"1", "7", "2", ".">> \o DecStr(k) \o <<".">> : k \in 16..31 }

\* The test with the dots of the one- and three-digit prefixes dropped.
isPrivateHttpUrlNoDot(u) ==
  IF ~StartsWith(u, S_HTTP) /\ ~StartsWith(u, S_HTTPS) THEN FALSE
  ELSE LET schemeEnd == IndexOf(u, S_SCHEME_END)
           rest      == SubstringFrom(u, schemeEnd + 3)
           slash     == IndexOf(rest, <<"/">>)
           host      == IF slash >= 0 THEN Substring(rest, 0, slash) ELSE rest
       IN \/ StartsWith(host, <<"1", "0">>)
          \/ StartsWith(host, <<"1", "2", "7">>)
          \/ \E p \in PrivatePrefixes : StartsWith(host, p)

\* auto isPrivateHttpUrl = [](const String &u) -> bool
isPrivateHttpUrl(u) ==
  IF ~StartsWith(u, S_HTTP) /\ ~StartsWith(u, S_HTTPS) THEN FALSE
  ELSE LET schemeEnd == IndexOf(u, S_SCHEME_END)
           rest      == SubstringFrom(u, schemeEnd + 3)
           slash     == IndexOf(rest, <<"/">>)
           host      == IF slash >= 0 THEN Substring(rest, 0, slash) ELSE rest
       IN \E p \in PrivatePrefixes : StartsWith(host, p)

\* deserializeJson(doc, photoURL) and doc["url"], for documents that are one
\* object with at most one string member and no escapes or white space: what
\* the library reports for them.  Anything else of this shape is an error.
ParseDoc(raw) ==
  LET n  == Len(raw)
      q  == "\""
      k2 == IF n >= 3 THEN IndexOf(SubstringFrom(raw, 2), <<q>>) ELSE -1  \* closing quote of the key
      kEnd == 2 + k2                                  \* 0-based index of that quote
      v2 == IF k2 >= 0 /\ n >= kEnd + 4
              THEN IndexOf(SubstringFrom(raw, kEnd + 3), <<q>>) ELSE -1  \* closing quote of the value
      vEnd == kEnd + 3 + v2
      wellFormed ==
        /\ n >= 7 /\ raw[1] = "{" /\ raw[2] = q
        /\ k2 >= 0
        /\ n >= kEnd + 4 /\ raw[kEnd + 2] = ":" /\ raw[kEnd + 3] = q
        /\ v2 >= 0
        /\ vEnd + 2 = n /\ raw[n] = "}"
  IN IF raw = <<"{", "}">> THEN [error |-> FALSE, key |-> S_EMPTY, value |-> S_EMPTY]
     ELSE IF wellFormed
       THEN [error |-> FALSE,
             key   |-> Substring(raw, 2, kEnd),
             value |-> Substring(raw, kEnd + 3, vEnd)]
       ELSE [error |-> TRUE, key |-> S_EMPTY, value |-> S_EMPTY]

\* Lines 243-252: the image URL sendAlert derives from its photoURL argument.
ExtractImageUrl(photo) ==
  IF StartsWith(photo, <<"{">>)
    THEN LET doc == ParseDoc(photo)
         IN IF ~doc.error /\ doc.key = S_URL THEN doc.value ELSE photo
    ELSE photo

----------------------------------------------------------------------------
(* The clock *)

\* millis() moves on to a later instant of the grid S.
TickOn(S) ==
  /\ \E t \in S : t > millis /\ millis' = t
  /\ UNCHANGED <<motionVars, alertVars, sendVars, mp, rd, boot, mqttLog, weatherVars, taskVars>>

----------------------------------------------------------------------------
(* Tasks: program counters and delays *)

Goto(t, l) == pc' = [pc EXCEPT ![t] = l]

\* vTaskDelay(ms) / delay(ms) by task t, which then continues at `to`.
Sleep(t, ms, to) ==
  /\ wake'   = [wake EXCEPT ![t] = millis + ms]
  /\ resume' = [resume EXCEPT ![t] = to]
  /\ pc'     = [pc EXCEPT ![t] = "delay"]

\* The delay of task t is over.
Wake(t) ==
  /\ pc[t] = "delay"
  /\ millis >= wake[t]
  /\ pc'     = [pc EXCEPT ![t] = resume[t]]
  /\ wake'   = [wake EXCEPT ![t] = 0]
  /\ resume' = [resume EXCEPT ![t] = "none"]
  /\ UNCHANGED <<millis, mp, rd, boot, weatherVars, motionVars, alertVars, sendVars, mqttLog>>

----------------------------------------------------------------------------
(* Telegram::sendAlert *)

maxFetchAttempts  == 3
maxUploadAttempts == 3
backoffBaseMs     == 600
HTTP_OK           == 200
DEFAULT_CAP       == 8192     \* size_t cap = (contentLength > 0) ? contentLength : 8192
maxIdleMs         == 12000
POLL_DELAY_MS     == 20       \* delay(20) while no data is available

\* Status codes HTTPClient hands back: success, another HTTP status, and a
\* negative transport error (connection refused, timeout).
Codes == {HTTP_OK, 404, -1}

\* The final request (line 483: http.begin(url)), by the values urlEncode is given.
NoUrl               == [op |-> "none", photo |-> S_EMPTY, text |-> S_EMPTY]
TextUrl(text)       == [op |-> "sendMessage", photo |-> S_EMPTY, text |-> text]
PhotoUrl(img, text) == [op |-> "sendPhoto", photo |-> img, text |-> text]

\* The locals of a call, as they stand when sendAlert(text, photo) is entered:
\* at is the point the call is at, delay the back-off it asks for before going
\* on, log (history) the Telegram API requests of the call so far, in order,
\* backoffs (history) the back-off waits of the call so far, readTotal,
\* readExit and idleFor what the read loop of the latest fetch attempt left
\* behind; block (history) tells whether the block imgBuf was last given by
\* malloc is live or freed, leaked and doubleFree (history) whether a live
\* block was ever lost or a freed one freed again.
TgCall(text, photo, ret) ==
  [at |-> "entry", ret |-> ret, delay |-> 0, log |-> <<>>,
   text |-> text, photo |-> photo, imageUrl |-> S_EMPTY, isPrivate |-> FALSE,
   fetchAttempt |-> 0, code |-> -1, contentLength |-> -1,
   imgBuf |-> "null", imgSize |-> 0, imgLive |-> 0, readExit |-> "none",
   block |-> "none", leaked |-> FALSE, doubleFree |-> FALSE,
   readTotal |-> 0, idleFor |-> 0, backoffs |-> <<>>,
   body |-> "none", uploadAttempt |-> 0, upCode |-> -1,
   url |-> NoUrl, httpCode |-> 0]

TgIdle == [TgCall(S_EMPTY, S_EMPTY, "none") EXCEPT !.at = "idle"]

Request(op, code) == [op |-> op, ok |-> code = HTTP_OK]

\* Lines 472-479: the send-photo-by-URL request is prepared.
UrlPath(s) == [s EXCEPT !.url = PhotoUrl(s.imageUrl, s.text), !.at = "final"]

(* The image read loop, lines 307-360.  What the loop sees from the outside is
   a script: one observation per iteration. *)

CHUNK    == 6000    \* bytes a stream->available() call reports at once, or twice that
MaxObs   == 3       \* iterations a script describes

\* One iteration's view of the camera stream:
\*   gap        ms since the previous iteration looked at the clock,
\*   avail      stream->available(),
\*   connected  imgClient.connected(),
\*   readAll    stream->read() delivers the bytes asked for (else it returns 0),
\*   grow       realloc() succeeds if it is called.
Obs(gap, avail, connected, readAll, grow) ==
  [gap |-> gap, avail |-> avail, connected |-> connected, readAll |-> readAll, grow |-> grow]

Observations ==
  { Obs(POLL_DELAY_MS, CHUNK, TRUE, TRUE, TRUE),        \* a chunk arrives
    Obs(POLL_DELAY_MS, 2 * CHUNK, TRUE, TRUE, TRUE),    \* a large chunk arrives
    Obs(POLL_DELAY_MS, 2 * CHUNK, TRUE, TRUE, FALSE),   \* the same, and the heap is exhausted
    Obs(POLL_DELAY_MS, CHUNK, TRUE, FALSE, TRUE),       \* data is reported but not read
    Obs(maxIdleMs - 1, 0, TRUE, TRUE, TRUE),            \* no data yet, just inside the idle limit
    Obs(maxIdleMs, 0, TRUE, TRUE, TRUE),                \* no data for the whole idle limit
    Obs(POLL_DELAY_MS, 0, FALSE, TRUE, TRUE) }          \* the camera closed the connection

Scripts == UNION { [1..k -> Observations] : k \in 1..MaxObs }

\* The loop's variables when it is entered (lines 300, 307, 308); clock is
\* millis() counted from that moment, idleFor (history) the time since the
\* last byte when the idle test of line 316 ended the loop, toRead (history)
\* the size of the latest read asked of the stream.
ReadStart(contentLength) ==
  [contentLength |-> contentLength,
   cap |-> IF contentLength > 0 THEN contentLength ELSE DEFAULT_CAP,
   readTotal |-> 0, lastProgress |-> 0, clock |-> 0, exit |-> "none", idleFor |-> 0,
   toRead |-> 0]

\* A variant of the iteration that never grows the buffer.
ReadIterationNoGrowth(r, o) ==
  LET clock == r.clock + o.gap IN
  IF o.avail <= 0
    THEN IF o.connected /\ (clock - r.lastProgress) < maxIdleMs
           THEN [r EXCEPT !.clock = clock, !.toRead = 0]             \* delay(20); continue
           ELSE [r EXCEPT !.clock = clock, !.toRead = 0,
                          !.exit = IF o.connected THEN "idle" ELSE "closed",
                          !.idleFor = IF o.connected THEN clock - r.lastProgress ELSE 0]
    ELSE
      LET remaining == r.contentLength - r.readTotal
          toRead == IF r.contentLength > 0 /\ o.avail > remaining THEN remaining ELSE o.avail
          mustGrow == FALSE
          newCap == IF r.cap * 2 < r.readTotal + toRead THEN r.readTotal + toRead ELSE r.cap * 2
      IN IF mustGrow /\ ~o.grow
           THEN [r EXCEPT !.clock = clock, !.toRead = toRead,
                          !.exit = "nomem"]                          \* realloc failed; break
           ELSE
             LET n == IF o.readAll THEN toRead ELSE 0
                 readTotal == r.readTotal + n
             IN [r EXCEPT !.clock = clock,
                          !.toRead = toRead,
                          !.cap = IF mustGrow THEN newCap ELSE r.cap,
                          !.readTotal = readTotal,
                          !.lastProgress = IF n > 0 THEN clock ELSE r.lastProgress,
                          !.exit = IF r.contentLength > 0 /\ readTotal = r.contentLength
                                     THEN "complete" ELSE "none"]

\* One iteration of while (true), lines 312-360, seeing o.
ReadIteration(r, o) ==
  LET clock == r.clock + o.gap IN
  IF o.avail <= 0
    THEN IF o.connected /\ (clock - r.lastProgress) < maxIdleMs
           THEN [r EXCEPT !.clock = clock, !.toRead = 0]             \* delay(20); continue
           ELSE [r EXCEPT !.clock = clock, !.toRead = 0,
                          !.exit = IF o.connected THEN "idle" ELSE "closed",
                          !.idleFor = IF o.connected THEN clock - r.lastProgress ELSE 0]
    ELSE
      LET remaining == r.contentLength - r.readTotal
          toRead == IF r.contentLength > 0 /\ o.avail > remaining THEN remaining ELSE o.avail
          mustGrow == r.contentLength <= 0 /\ r.readTotal + toRead > r.cap
          newCap == IF r.cap * 2 < r.readTotal + toRead THEN r.readTotal + toRead ELSE r.cap * 2
      IN IF mustGrow /\ ~o.grow
           THEN [r EXCEPT !.clock = clock, !.toRead = toRead,
                          !.exit = "nomem"]                          \* realloc failed; break
           ELSE
             LET n == IF o.readAll THEN toRead ELSE 0
                 readTotal == r.readTotal + n
             IN [r EXCEPT !.clock = clock,
                          !.toRead = toRead,
                          !.cap = IF mustGrow THEN newCap ELSE r.cap,
                          !.readTotal = readTotal,
                          !.lastProgress = IF n > 0 THEN clock ELSE r.lastProgress,
                          !.exit = IF r.contentLength > 0 /\ readTotal = r.contentLength
                                     THEN "complete" ELSE "none"]

\* No read loop is running.
RdIdle == [at |-> "idle"]

\* The loop run over a script from iteration i on; exit stays "none" when the
\* script ends while the loop is still going round.
RECURSIVE ReadLoop(_, _, _)
ReadLoop(r, script, i) ==
  IF r.exit # "none" \/ i > Len(script) THEN r
  ELSE ReadLoop(ReadIteration(r, script[i]), script, i + 1)

\* The validation without the comparison against the declared length.
FetchSucceededAnyBytes(contentLength, readTotal) == readTotal # 0

\* Lines 362-375: imgSize, and whether the attempt counts as a success.
FetchSucceeded(contentLength, readTotal) ==
  ~(contentLength > 0 /\ readTotal # contentLength) /\ readTotal # 0

\* Declared lengths imgHttp.getSize() returns: none (-1), zero, two chunks.
DeclaredLengths == {-1, 0, 2 * CHUNK}

\* Every way the read loop can end, per declared length: what is left of its
\* variables when it is left.
ReadOutcomes ==
  { [contentLength |-> r.contentLength, readTotal |-> r.readTotal, exit |-> r.exit,
     idleFor |-> r.idleFor] :
      r \in { x \in { ReadLoop(ReadStart(len), script, 1) :
                        len \in DeclaredLengths, script \in Scripts } : x.exit # "none" } }


(* The multipart assembly of sendAlert, lines 389-420, byte by byte.  In the
   steps of the call above it is the step from "fetched" to "post". *)

CRLF == <<"\r", "\n">>
DASHES == <<"-", "-">>

S_BOUNDARY ==
  <<"-", "-", "-", "-", "E", "S", "P", "3", "2", "B", "o", "u", "n", "d", "a", "r", "y">>

S_DISP_CHAT_ID ==
  <<"C", "o", "n", "t", "e", "n", "t", "-", "D", "i", "s", "p", "o", "s", "i", "t", "i",
    "o", "n", ":", " ", "f", "o", "r", "m", "-", "d", "a", "t", "a", ";", " ", "n", "a",
    "m", "e", "=", "\"", "c", "h", "a", "t", "_", "i", "d", "\"">>

S_DISP_CAPTION ==
  <<"C", "o", "n", "t", "e", "n", "t", "-", "D", "i", "s", "p", "o", "s", "i", "t", "i",
    "o", "n", ":", " ", "f", "o", "r", "m", "-", "d", "a", "t", "a", ";", " ", "n", "a",
    "m", "e", "=", "\"", "c", "a", "p", "t", "i", "o", "n", "\"">>

S_DISP_PHOTO ==
  <<"C", "o", "n", "t", "e", "n", "t", "-", "D", "i", "s", "p", "o", "s", "i", "t", "i",
    "o", "n", ":", " ", "f", "o", "r", "m", "-", "d", "a", "t", "a", ";", " ", "n", "a",
    "m", "e", "=", "\"", "p", "h", "o", "t", "o", "\"", ";", " ", "f", "i", "l", "e",
    "n", "a", "m", "e", "=", "\"", "i", "m", "a", "g", "e", ".", "j", "p", "g", "\"">>

S_CONTENT_TYPE ==
  <<"C", "o", "n", "t", "e", "n", "t", "-", "T", "y", "p", "e", ":", " ", "i", "m", "a",
    "g", "e", "/", "j", "p", "e", "g">>

TELEGRAM_CHATID == <<"1", "1", "1", "1", "1", "1", "1", "1", "1", "1">>

\* String boundary = "----ESP32Boundary" + String(millis());
Boundary(now) == S_BOUNDARY \o DecStr(now)

\* String pre: the chat_id part, the caption part and the headers of the photo part.
Pre(boundary, chatId, text) ==
  DASHES \o boundary \o CRLF
    \o S_DISP_CHAT_ID \o CRLF \o CRLF \o chatId \o CRLF
    \o DASHES \o boundary \o CRLF
    \o S_DISP_CAPTION \o CRLF \o CRLF \o text \o CRLF
    \o DASHES \o boundary \o CRLF
    \o S_DISP_PHOTO \o CRLF
    \o S_CONTENT_TYPE \o CRLF \o CRLF

\* String post = "\r\n--" + boundary + "--\r\n";
Post(boundary) == CRLF \o DASHES \o boundary \o DASHES \o CRLF

\* new (std::nothrow) uint8_t[n]: n bytes nothing has been written to yet.
NewBytes(n) == [i \in 1..n |-> "uninit"]

\* memcpy(dst + off, src, n)
MemcpyOneShort(dst, off, src, n) ==
  [i \in 1..Len(dst) |-> IF off < i /\ i < off + n THEN src[i - off] ELSE dst[i]]

Memcpy(dst, off, src, n) ==
  [i \in 1..Len(dst) |-> IF off < i /\ i <= off + n THEN src[i - off] ELSE dst[i]]

\* The locals of the assembly; at is the point it is at.
MpIdle ==
  [at |-> "idle", chatId |-> S_EMPTY, text |-> S_EMPTY, imgBuf |-> S_EMPTY, imgSize |-> 0,
   imgHeld |-> FALSE, boundary |-> S_EMPTY, pre |-> S_EMPTY, post |-> S_EMPTY,
   totalLen |-> 0, body |-> S_EMPTY]

\* Line 389 has passed: an image of imgSize > 0 bytes is in imgBuf.
MpFetched(chatId, text, image) ==
  [MpIdle EXCEPT !.at = "parts", !.chatId = chatId, !.text = text,
                 !.imgBuf = image, !.imgSize = Len(image), !.imgHeld = TRUE]

\* Lines 392-409: boundary, pre, post and totalLen.
MpParts ==
  /\ mp.at = "parts"
  /\ LET boundary == Boundary(millis)
         pre  == Pre(boundary, mp.chatId, mp.text)
         post == Post(boundary)
     IN mp' = [mp EXCEPT !.boundary = boundary, !.pre = pre, !.post = post,
                         !.totalLen = Len(pre) + mp.imgSize + Len(post),
                         !.at = "alloc"]
  /\ UNCHANGED <<millis, rd, boot, motionVars, alertVars, sendVars, mqttLog, weatherVars, taskVars>>

\* Lines 412-420: the body is allocated and the three parts are copied into
\* it, or the allocation fails and the image is freed.
MpCopy ==
  /\ mp.at = "alloc"
  /\ \/ mp' = [mp EXCEPT !.imgHeld = FALSE, !.at = "nobody"]
     \/ LET b0 == NewBytes(mp.totalLen)
             b1 == Memcpy(b0, 0, mp.pre, Len(mp.pre))
             b2 == Memcpy(b1, Len(mp.pre), mp.imgBuf, mp.imgSize)
             b3 == Memcpy(b2, Len(mp.pre) + mp.imgSize, mp.post, Len(mp.post))
         IN mp' = [mp EXCEPT !.body = b3, !.at = "assembled"]
  /\ UNCHANGED <<millis, rd, boot, motionVars, alertVars, sendVars, mqttLog, weatherVars, taskVars>>

(* The steps of sendAlert.  Each gives, for the locals s of a call, the locals
   the step can leave behind: one for each answer of the network and the heap. *)

\* The entry taking every photo reference for a private one.
EntrySuccAlwaysFetch(s) ==
  IF s.photo = S_EMPTY
    THEN { [s EXCEPT !.url = TextUrl(s.text), !.at = "final"] }
    ELSE LET imageUrl == ExtractImageUrl(s.photo)
         IN { [s EXCEPT !.imageUrl = imageUrl, !.isPrivate = isPrivateHttpUrl(imageUrl),
                        !.at = "get"] }

\* Lines 215-258: the path is chosen from the photoURL argument.
EntrySucc(s) ==
  IF s.photo = S_EMPTY
    THEN { [s EXCEPT !.url = TextUrl(s.text), !.at = "final"] }
    ELSE LET imageUrl == ExtractImageUrl(s.photo)
             s1 == [s EXCEPT !.imageUrl = imageUrl, !.isPrivate = isPrivateHttpUrl(imageUrl)]
         IN IF s1.isPrivate THEN { [s1 EXCEPT !.at = "get"] } ELSE { UrlPath(s1) }

\* imgBuf = (uint8_t*)malloc(cap), succeeding: one more image buffer is live.
Malloc(s) ==
  [s EXCEPT !.imgBuf = "buf", !.imgLive = @ + 1, !.block = "live",
            !.leaked = @ \/ s.block = "live"]

\* imgBuf = nullptr
SetNull(s) ==
  [s EXCEPT !.imgBuf = "null", !.block = "none", !.leaked = @ \/ s.block = "live"]

\* free(imgBuf) that releases nothing.
FreeNothing(s) == s

\* free(imgBuf): nothing for a null pointer, else one live buffer fewer (the
\* pointer itself is left as it is).
Free(s) ==
  IF s.imgBuf = "null" THEN s
  ELSE [s EXCEPT !.imgLive = @ - 1, !.block = "freed",
                 !.doubleFree = @ \/ s.block = "freed"]

\* Lines 383-385 and 448-450: delay(backoff) after attempt k of a loop.
Backoff(s, loop, k, ms) ==
  [s EXCEPT !.delay = ms,
            !.backoffs = Append(@, [loop |-> loop, after |-> k, ms |-> ms])]

\* The loop waiting the same time after every failed attempt.
FetchRetryFlat(s) ==
  IF s.fetchAttempt < maxFetchAttempts
    THEN Backoff([s EXCEPT !.at = "get"], "fetch", s.fetchAttempt, backoffBaseMs)
    ELSE [s EXCEPT !.at = "fetched"]

\* The loop going round once more than maxFetchAttempts allows.
FetchRetryOnceMore(s) ==
  IF s.fetchAttempt <= maxFetchAttempts
    THEN Backoff([s EXCEPT !.at = "get"], "fetch", s.fetchAttempt,
                 backoffBaseMs * s.fetchAttempt)
    ELSE [s EXCEPT !.at = "fetched"]

\* Lines 381-387 after a failed attempt: back off and go round, or leave the loop.
FetchRetry(s) ==
  IF s.fetchAttempt < maxFetchAttempts
    THEN Backoff([s EXCEPT !.at = "get"], "fetch", s.fetchAttempt,
                 backoffBaseMs * s.fetchAttempt)
    ELSE [s EXCEPT !.at = "fetched"]

\* Lines 273-286 and 377-379: one GET of the image.
GetSucc(s) ==
  { LET s1 == [s EXCEPT !.fetchAttempt = @ + 1, !.code = code,
                        !.readTotal = 0, !.readExit = "none", !.idleFor = 0]
    IN IF code = HTTP_OK THEN [s1 EXCEPT !.at = "body"] ELSE FetchRetry(s1) :
    code \in Codes }

\* The body read with the success break missing: the loop goes round after a
\* validated body as after a failed one.
BodySuccNoBreak(s) ==
  { IF ~mo[1]
      THEN FetchRetry([SetNull(s) EXCEPT !.contentLength = mo[2].contentLength,
                                         !.readExit = "nomalloc"])
      ELSE IF FetchSucceeded(mo[2].contentLength, mo[2].readTotal)
        THEN FetchRetry([Malloc(s) EXCEPT !.contentLength = mo[2].contentLength,
                       !.imgSize = mo[2].readTotal, !.readExit = mo[2].exit,
                       !.readTotal = mo[2].readTotal, !.idleFor = mo[2].idleFor])
        ELSE FetchRetry([SetNull(Free(Malloc(s))) EXCEPT
                                  !.contentLength = mo[2].contentLength,
                                  !.imgSize = 0, !.readExit = mo[2].exit,
                                  !.readTotal = mo[2].readTotal,
                                  !.idleFor = mo[2].idleFor]) :
    mo \in BOOLEAN \X ReadOutcomes }

\* Lines 288-376: the response body is read into a buffer and checked.
BodySucc(s) ==
  { IF ~mo[1]
      THEN FetchRetry([SetNull(s) EXCEPT !.contentLength = mo[2].contentLength,
                                         !.readExit = "nomalloc"])   \* malloc failed
      ELSE IF FetchSucceeded(mo[2].contentLength, mo[2].readTotal)
        THEN [Malloc(s) EXCEPT !.contentLength = mo[2].contentLength,
                       !.imgSize = mo[2].readTotal, !.readExit = mo[2].exit,
                       !.readTotal = mo[2].readTotal, !.idleFor = mo[2].idleFor,
                       !.at = "fetched"]                             \* break
        ELSE FetchRetry([SetNull(Free(Malloc(s))) EXCEPT             \* free(imgBuf); imgBuf = nullptr
                                  !.contentLength = mo[2].contentLength,
                                  !.imgSize = 0, !.readExit = mo[2].exit,
                                  !.readTotal = mo[2].readTotal,
                                  !.idleFor = mo[2].idleFor]) :
    mo \in BOOLEAN \X ReadOutcomes }

\* The step after the fetch loop going on to the upload whatever the loop left.
FetchedSuccAlways(s) ==
  { [s EXCEPT !.body = "held", !.at = "post"], UrlPath(Free(s)) }

\* Lines 389-420 and 466-470: after the fetch loop, the multipart body is
\* assembled, or the URL method is fallen back to.
FetchedSucc(s) ==
  IF s.code = HTTP_OK /\ s.imgBuf # "null" /\ s.imgSize > 0
    THEN { [s EXCEPT !.body = "held", !.at = "post"],                \* body allocated
           UrlPath(Free(s)) }                                        \* not: free(imgBuf)
    ELSE { UrlPath(s) }

\* Variant of the upload loop: a 200 does not return but falls through to the
\* URL method.
PostSuccFallsThrough(s) ==
  { LET s1 == [s EXCEPT !.uploadAttempt = @ + 1, !.upCode = upCode,
                        !.log = Append(@, Request("upload", upCode))]
    IN IF upCode # HTTP_OK /\ s1.uploadAttempt < maxUploadAttempts
         THEN Backoff(s1, "upload", s1.uploadAttempt, backoffBaseMs * s1.uploadAttempt)
         ELSE UrlPath([Free(s1) EXCEPT !.body = "released"]) :
    upCode \in Codes }

\* One POST, the call returning after the last failed one.
PostSuccGivesUp(s) ==
  { LET s1 == [s EXCEPT !.uploadAttempt = @ + 1, !.upCode = upCode,
                        !.log = Append(@, Request("upload", upCode))]
    IN IF upCode # HTTP_OK /\ s1.uploadAttempt < maxUploadAttempts
         THEN Backoff(s1, "upload", s1.uploadAttempt, backoffBaseMs * s1.uploadAttempt)
         ELSE [Free(s1) EXCEPT !.body = "released", !.at = "return"] :
    upCode \in Codes }

\* One POST with any HTTP status taken for a success; only a transport error
\* is retried.
PostSuccAnyStatus(s) ==
  { LET s1 == [s EXCEPT !.uploadAttempt = @ + 1, !.upCode = upCode,
                        !.log = Append(@, Request("upload", upCode))]
    IN IF upCode < 0
         THEN IF s1.uploadAttempt < maxUploadAttempts
                THEN Backoff(s1, "upload", s1.uploadAttempt,
                             backoffBaseMs * s1.uploadAttempt)
                ELSE UrlPath([Free(s1) EXCEPT !.body = "released"])
         ELSE [Free(s1) EXCEPT !.body = "released", !.at = "return"] :
    upCode \in Codes }

\* Lines 428-465: one POST of the multipart body.
PostSucc(s) ==
  { LET s1 == [s EXCEPT !.uploadAttempt = @ + 1, !.upCode = upCode,
                        !.log = Append(@, Request("upload", upCode))]
    IN IF upCode # HTTP_OK
         THEN IF s1.uploadAttempt < maxUploadAttempts
                THEN Backoff(s1, "upload", s1.uploadAttempt,
                             backoffBaseMs * s1.uploadAttempt)
                ELSE UrlPath([Free(s1) EXCEPT !.body = "released"])  \* free(imgBuf)
         ELSE [Free(s1) EXCEPT !.body = "released", !.at = "return"] :
    upCode \in Codes }

\* Lines 481-501: the final API call, text-only or photo by URL.
FinalSucc(s) ==
  { [s EXCEPT !.httpCode = httpCode, !.log = Append(@, Request(s.url.op, httpCode)),
              !.at = "return"] :
    httpCode \in Codes }

\* One step of the call with locals s.
TgSucc(s) ==
  CASE s.at = "entry"   -> EntrySucc(s)
    [] s.at = "get"     -> GetSucc(s)
    [] s.at = "body"    -> BodySucc(s)
    [] s.at = "fetched" -> FetchedSucc(s)
    [] s.at = "post"    -> PostSucc(s)
    [] s.at = "final"   -> FinalSucc(s)
    [] OTHER            -> {}

\* The call run to its end from each of the locals in S, back-off waits
\* included: every way it can return.
RECURSIVE Run(_)
Run(S) ==
  IF \A s \in S : s.at = "return" THEN S
  ELSE Run(UNION { IF s.at = "return" THEN {s} ELSE { [x EXCEPT !.delay = 0] : x \in TgSucc(s) } :
                   s \in S })

\* What a caller can tell of a returned call: the request that delivered the
\* alert, if any did.
Delivery(s) ==
  LET oks == { i \in 1..Len(s.log) : s.log[i].ok }
  IN IF oks = {} THEN "none" ELSE s.log[CHOOSE i \in oks : TRUE].op

Other(t) == IF t = "alert" THEN "sensor" ELSE "alert"

\* History of what one task does while the other is inside sendAlert: 0 when
\* the call begins, 1 once the other task has begun an iteration of its loop
\* during the call, 2 once it has also finished that iteration during the call.
Begins(t) ==
  passed' = [passed EXCEPT ![Other(t)] = IF pc[Other(t)] = "sendAlert" /\ @ = 0 THEN 1 ELSE @]

Completes(t) ==
  passed' = [passed EXCEPT ![Other(t)] = IF pc[Other(t)] = "sendAlert" /\ @ = 1 THEN 2 ELSE @]

\* Task t calls Telegram::sendAlert(text, photo) and continues at ret afterwards.
CallSendAlert(t, text, photo, ret) ==
  /\ tg'   = [tg EXCEPT ![t] = TgCall(text, photo, ret)]
  /\ sent' = [sent EXCEPT ![t] = "-"]
  /\ passed' = [passed EXCEPT ![t] = 0]
  /\ Goto(t, "sendAlert")

\* The caller of a returned call goes on: the call's locals no longer exist.
Forget(t) == tg' = [tg EXCEPT ![t] = TgIdle]

\* The camera's own address, as CameraClient::capture() builds it in real mode,
\* and every way the motion alert for it can end (worked out once).
CameraUrl      == S_HTTP \o CAM_IP \o S_JPG
CameraCall     == TgCall(S_MOTION, CameraUrl, "motion_delay")
CameraOutcomes == { Delivery(o) : o \in Run({CameraCall}) }
Outcomes(s)    == IF s = CameraCall THEN CameraOutcomes
                  ELSE { Delivery(o) : o \in Run({s}) }

\* Telegram::sendAlert as one blocking call of task t: entered by CallSendAlert,
\* it returns here, after all its requests, retries and fall-backs.
SendAlertReturns(t) ==
  /\ pc[t] = "sendAlert"
  /\ tg[t].at = "entry"
  /\ \E d \in Outcomes(tg[t]) : sent' = [sent EXCEPT ![t] = d]
  /\ passed' = [passed EXCEPT ![t] = IF @ = 2 THEN 2 ELSE 0]
  /\ Goto(t, tg[t].ret)
  /\ Forget(t)
  /\ UNCHANGED <<millis, mp, rd, boot, weatherVars, motionVars, alertVars, mqttLog, wake, resume>>

\* The same call step by step: task t takes the step of sendAlert it is at.
TgStep(t, at) ==
  /\ pc[t] = "sendAlert"
  /\ tg[t].at = at
  /\ \E s \in TgSucc(tg[t]) :
       /\ tg' = [tg EXCEPT ![t] = [s EXCEPT !.delay = 0]]
       /\ IF s.at = "return"
            THEN /\ sent' = [sent EXCEPT ![t] = Delivery(s)]
                 /\ Goto(t, s.ret)
                 /\ UNCHANGED <<wake, resume>>
            ELSE /\ UNCHANGED sent
                 /\ IF s.delay > 0
                      THEN Sleep(t, s.delay, "sendAlert")
                      ELSE UNCHANGED <<pc, wake, resume>>
  /\ UNCHANGED <<millis, mp, rd, boot, weatherVars, motionVars, alertVars, mqttLog, passed>>

TgEntry(t)   == TgStep(t, "entry")
FetchGet(t)  == TgStep(t, "get")
FetchBody(t) == TgStep(t, "body")
TgFetched(t) == TgStep(t, "fetched")
TgPost(t)    == TgStep(t, "post")
TgFinal(t)   == TgStep(t, "final")

sendAlert(t) ==
  TgEntry(t) \/ FetchGet(t) \/ FetchBody(t) \/ TgFetched(t) \/ TgPost(t) \/ TgFinal(t)

----------------------------------------------------------------------------
(* Motion module: interrupt handler and poll *)

\* How an edge at time t stands to the edge accepted before it (history only).
EdgeGap(t, last) ==
  IF t - last < DEBOUNCE_MS THEN "inside"
  ELSE IF t - last = DEBOUNCE_MS THEN "at"
  ELSE "beyond"

\* Variants of the debounce test: one millisecond late, and no window at all.
DebounceElapsedLate(nowI, last) == nowI - last > DEBOUNCE_MS + 1
DebounceElapsedAny(nowI, last)  == nowI - last > 0

\* Line 30: the debounce test of the handler.
DebounceElapsed(nowI, last) == nowI - last > DEBOUNCE_MS

\* void IRAM_ATTR onMotion(), once it is attached: runs to completion, preempting either task;
\* midPoll (history) tells whether it came between the read of the flag and
\* its clearing in Motion::motionDetected.
onMotion ==
  /\ boot.attached
  /\ LET nowI == millis IN
       /\ IF DebounceElapsed(nowI, lastTriggerTime)
            THEN /\ motionFlag' = TRUE
                 /\ lastTriggerTime' = nowI
            ELSE UNCHANGED <<motionFlag, lastTriggerTime>>
       /\ lastEdge' = [gap      |-> EdgeGap(nowI, lastTriggerTime),
                       after    |-> lastEdge.accepted,
                       accepted |-> lastEdge.accepted \/ lastTriggerTime' # lastTriggerTime,
                       set      |-> motionFlag' /\ lastTriggerTime' = nowI,
                       noop     |-> motionFlag' = motionFlag
                                      /\ lastTriggerTime' = lastTriggerTime,
                       midPoll  |-> pc["alert"] = "clear"]
  /\ UNCHANGED <<millis, mp, rd, boot, weatherVars, alertVars, sendVars, mqttLog, taskVars>>

----------------------------------------------------------------------------
(* CameraClient::capture and NetMQTT::publishAlert *)

\* String CameraClient::capture(): the value returned and the counter afterwards.
Capture(mock, count) ==
  IF mock
    THEN [result |-> S_JSON_OPEN \o S_PICSUM \o DecStr(count + 1) \o S_JSON_CLOSE,
          count  |-> count + 1]
    ELSE [result |-> S_HTTP \o CAM_IP \o S_JPG, count |-> count]

\* void NetMQTT::publishAlert(reason, photoURL) by task t: the message handed to
\* alertFeed.publish, by its parts (alertMsg is reason, or reason | Photo: url).
\* What publish reports only selects the line printed.
PublishAlert(t, reason, photo) ==
  mqttLog' = [mqttLog EXCEPT ![t] =
                Append(@, [feed |-> "alerts", value |-> reason, tenths |-> 0,
                           photo |-> photo])]

----------------------------------------------------------------------------
(* taskAlert, with Motion::motionDetected and Alerts::handleMotionAlert *)

\* Variants of the cooldown test: one millisecond early, and no cooldown at all.
CooldownElapsedEarly(nowA, last) == nowA - last >= ALERT_COOLDOWN - 1
CooldownElapsedAlways(nowA, last) == nowA - last >= 0

\* Line 120: the cooldown test.
CooldownElapsed(nowA, last) == nowA - last >= ALERT_COOLDOWN

\* Lines 116 and 77: the flag is read; without motion the task sleeps (line 141).
AlertPoll ==
  /\ pc["alert"] = "poll"
  /\ IF motionFlag
       THEN Goto("alert", "clear") /\ Begins("alert") /\ UNCHANGED <<wake, resume>>
       ELSE Sleep("alert", ALERT_POLL_MS, "poll") /\ UNCHANGED passed
  /\ UNCHANGED <<millis, mp, rd, boot, weatherVars, motionVars, alertVars, tg, sent, mqttLog>>

\* A variant of AlertClear in which the alert loop also restarts the debounce
\* interval.
AlertClearRestartsDebounce ==
  /\ pc["alert"] = "clear"
  /\ motionFlag' = FALSE
  /\ lastTriggerTime' = millis
  /\ Goto("alert", "cooldown")
  /\ UNCHANGED <<millis, mp, rd, boot, weatherVars, lastEdge, alertVars, sendVars, mqttLog, wake, resume>>

\* Lines 79-80: the flag is cleared and motion reported.
AlertClear ==
  /\ pc["alert"] = "clear"
  /\ motionFlag' = FALSE
  /\ Goto("alert", "cooldown")
  /\ UNCHANGED <<millis, mp, rd, boot, weatherVars, lastTriggerTime, lastEdge, alertVars, sendVars, mqttLog, wake, resume>>

\* A variant of AlertCooldown that keeps a motion observed inside the cooldown
\* pending for a later poll.
AlertCooldownDefers ==
  /\ pc["alert"] = "cooldown"
  /\ alertNow' = millis
  /\ observed' = [inside |-> millis - lastAlertTime < ALERT_COOLDOWN, last |-> lastAlertTime]
  /\ IF CooldownElapsed(millis, lastAlertTime)
       THEN /\ Goto("alert", "capture")
            /\ accepts' = <<accepts[2], millis>>
            /\ UNCHANGED <<wake, resume>>
       ELSE /\ Sleep("alert", ALERT_POLL_MS, "poll")
            /\ UNCHANGED accepts
  /\ motionFlag' = (motionFlag \/ ~CooldownElapsed(millis, lastAlertTime))
  /\ UNCHANGED <<millis, mp, rd, boot, weatherVars, lastTriggerTime, lastEdge, lastAlertTime,
                 photoURL, mockMode, mockCaptureCount, sendVars, mqttLog>>

\* Lines 117-120 and 133-141: the clock is read and the cooldown tested.
AlertCooldown ==
  /\ pc["alert"] = "cooldown"
  /\ alertNow' = millis
  /\ observed' = [inside |-> millis - lastAlertTime < ALERT_COOLDOWN, last |-> lastAlertTime]
  /\ IF CooldownElapsed(millis, lastAlertTime)
       THEN /\ Goto("alert", "capture")
            /\ accepts' = <<accepts[2], millis>>
            /\ UNCHANGED <<wake, resume>>
       ELSE /\ Sleep("alert", ALERT_POLL_MS, "poll")
            /\ UNCHANGED accepts
  /\ UNCHANGED <<millis, mp, rd, boot, weatherVars, motionVars, lastAlertTime, photoURL, mockMode, mockCaptureCount,
                 sendVars, mqttLog>>

\* Lines 123-128 and 107-116: the photo is captured and handleMotionAlert
\* hands it to Telegram::sendAlert.
AlertCapture ==
  /\ pc["alert"] = "capture"
  /\ LET c == Capture(mockMode, mockCaptureCount) IN
       /\ photoURL' = c.result
       /\ mockCaptureCount' = c.count
       /\ CallSendAlert("alert", S_MOTION, c.result, "motion_delay")
  /\ mqttLog' = [mqttLog EXCEPT !["alert"] = <<>>]
  /\ UNCHANGED <<millis, mp, rd, boot, weatherVars, motionVars, lastAlertTime, alertNow, mockMode, accepts, observed,
                 wake, resume>>

\* Line 121: the spacing delay before the dashboard publish.
AlertMqttDelay ==
  /\ pc["alert"] = "motion_delay"
  /\ Sleep("alert", MQTT_SPACING_MS, "motion_publish")
  /\ Forget("alert")
  /\ UNCHANGED <<millis, mp, rd, boot, weatherVars, motionVars, alertVars, sent, passed, mqttLog>>

\* A variant of AlertPublish that hands the captured photo's locator on.
AlertPublishWithPhoto ==
  /\ pc["alert"] = "motion_publish"
  /\ PublishAlert("alert", "motion", photoURL)
  /\ Goto("alert", "set_last")
  /\ UNCHANGED <<millis, mp, rd, boot, weatherVars, motionVars, alertVars, sendVars, wake, resume>>

\* Line 125: the dashboard publish, without the photo.
AlertPublish ==
  /\ pc["alert"] = "motion_publish"
  /\ PublishAlert("alert", "motion", S_EMPTY)
  /\ Goto("alert", "set_last")
  /\ UNCHANGED <<millis, mp, rd, boot, weatherVars, motionVars, alertVars, sendVars, wake, resume>>

\* A variant of AlertSetLast that restarts the cooldown from the time the
\* delivery sequence is complete.
AlertSetLastAtCompletion ==
  /\ pc["alert"] = "set_last"
  /\ lastAlertTime' = millis
  /\ Sleep("alert", ALERT_POLL_MS, "poll")
  /\ sent' = [sent EXCEPT !["alert"] = "-"]
  /\ mqttLog' = [mqttLog EXCEPT !["alert"] = <<>>]
  /\ Completes("alert")
  /\ UNCHANGED <<millis, mp, rd, boot, weatherVars, motionVars, alertNow, photoURL, mockMode, mockCaptureCount,
                 accepts, observed, tg>>

\* Lines 131 and 141: the cooldown restarts from the acceptance time; sleep.
AlertSetLast ==
  /\ pc["alert"] = "set_last"
  /\ lastAlertTime' = alertNow
  /\ Sleep("alert", ALERT_POLL_MS, "poll")
  /\ sent' = [sent EXCEPT !["alert"] = "-"]
  /\ mqttLog' = [mqttLog EXCEPT !["alert"] = <<>>]
  /\ Completes("alert")
  /\ UNCHANGED <<millis, mp, rd, boot, weatherVars, motionVars, alertNow, photoURL, mockMode, mockCaptureCount,
                 accepts, observed, tg>>

taskAlert ==
  \/ AlertPoll \/ AlertClear \/ AlertCooldown \/ AlertCapture
  \/ AlertMqttDelay \/ AlertPublish \/ AlertSetLast
  \/ SendAlertReturns("alert") \/ Wake("alert")

----------------------------------------------------------------------------
(* The weather gate: Alerts::checkWeatherAlerts, run by taskSensor *)

\* A reading is NaN or a value in tenths of a unit, the resolution of the DHT22.
TEMP_LIMIT       == 340      \* #define TEMP_LIMIT 34.0
HUM_LIMIT        == 900      \* #define HUM_LIMIT 90.0
SENSOR_PERIOD_MS == 30000    \* taskSensor: xPeriod = pdMS_TO_TICKS(30000)
ENV_SPACING_MS   == 1000     \* publishEnv: delay(1000) between the two feeds

MaxSamples == 4    \* sensor periods the weather clock grid spans
CountCap   == 3    \* the crossing history counts up to this many and then stays

Metrics == {"temp", "hum"}

\* What dht.readTemperature() and dht.readHumidity() can return: a failed read,
\* a value within the limit (for humidity: exactly at it) and one above it.
NaN         == [valid |-> FALSE, tenths |-> 0]
Reading(n)  == [valid |-> TRUE, tenths |-> n]
isnan(v)    == ~v.valid

TempReadings == {NaN, Reading(300), Reading(350)}
HumReadings  == {NaN, Reading(900), Reading(950)}

\* The instants at which the weather specification reads the clock: the start
\* of every sensor period and one spacing delay later.
WeatherInstants ==
  { p * SENSOR_PERIOD_MS + d : p \in 0..MaxSamples, d \in {0, MQTT_SPACING_MS} }

Limit(m)    == IF m = "temp" THEN TEMP_LIMIT ELSE HUM_LIMIT
\* Variant of the tags: the two metrics exchanged.
AlertTagSwapped(m) == IF m = "temp" THEN "high_humidity" ELSE "high_temperature"

\* Lines 52 and 81: the reason tag of metric m.
AlertTag(m) == IF m = "temp" THEN "high_temperature" ELSE "high_humidity"
Flag(m)     == IF m = "temp" THEN tempAlertSent ELSE humAlertSent

\* Variant of the limit test: an invalid reading counts as above the limit.
AboveLimitOrNaN(v, limit) == isnan(v) \/ v.tenths > limit

\* Lines 36 and 65: !isnan(v) && v > LIMIT
AboveLimit(v, limit) == ~isnan(v) /\ v.tenths > limit

\* String(v, 1) and String(LIMIT) (two decimals) of a value in tenths.
Fmt1(n) == DecStr(n \div 10) \o <<".">> \o DecStr(n % 10)
Fmt2(n) == Fmt1(n) \o <<"0">>

S_WARN      == <<"U+26A0", "U+FE0F", " ">>
S_HIGH_TEMP == <<"H", "I", "G", "H", " ", "T", "E", "M", "P", "E", "R", "A", "T", "U", "R", "E", " ", "A", "L", "E", "R", "T", ":", " ">>
S_HIGH_HUM  == <<"H", "I", "G", "H", " ", "H", "U", "M", "I", "D", "I", "T", "Y", " ", "A", "L", "E", "R", "T", ":", " ">>
S_DEG_LIMIT == <<"U+00B0">> \o <<"C", " ", "(", "L", "i", "m", "i", "t", ":", " ">>
S_PCT_LIMIT == <<"%", " ", "(", "L", "i", "m", "i", "t", ":", " ">>
S_DEG_END   == <<"U+00B0", "C", ")">>
S_PCT_END   == <<"%", ")">>

\* Lines 43 and 72: String msg
WeatherMsg(m, v) ==
  IF m = "temp"
    THEN S_WARN \o S_HIGH_TEMP \o Fmt1(v.tenths) \o S_DEG_LIMIT \o Fmt2(TEMP_LIMIT) \o S_DEG_END
    ELSE S_WARN \o S_HIGH_HUM \o Fmt1(v.tenths) \o S_PCT_LIMIT \o Fmt2(HUM_LIMIT) \o S_PCT_END

\* Program points of checkWeatherAlerts, per metric.
AtCheck(m)   == IF m = "temp" THEN "temp_check" ELSE "hum_check"
AtDelay(m)   == IF m = "temp" THEN "temp_delay" ELSE "hum_delay"
AtPublish(m) == IF m = "temp" THEN "temp_publish" ELSE "hum_publish"
AtSet(m)     == IF m = "temp" THEN "temp_set" ELSE "hum_set"
AfterGate(m) == IF m = "temp" THEN "hum_check" ELSE "period"

\* Variant of the flag assignment: the flag is never latched.
SetFlagNever(m, b) ==
  IF m = "temp"
    THEN tempAlertSent' = FALSE /\ UNCHANGED humAlertSent
    ELSE humAlertSent' = FALSE /\ UNCHANGED tempAlertSent

\* Variant of the flag assignment: one assignment writes both flags.
SetFlagBoth(m, b) ==
  tempAlertSent' = b /\ humAlertSent' = b

\* Lines 55, 60, 84 and 88: the assignment to the flag of metric m.
SetFlag(m, b) ==
  IF m = "temp"
    THEN tempAlertSent' = b /\ UNCHANGED humAlertSent
    ELSE humAlertSent' = b /\ UNCHANGED tempAlertSent

(* History of a crossing, per metric.  phase is "low" while every sample since
   the gate was last seen within the limit has been within it (at boot: no
   sample yet), "high" while the samples after those have all been above it,
   "back" once they have returned within it, and "off" from an invalid sample
   until the next one within the limit.  below, above and back count the
   samples of the three phases (in "off": above counts the samples above the
   limit since the invalid one); sends, pubs, clears and tags are what the gate
   did for the samples counted. *)
GateStart ==
  [phase |-> "low", below |-> 0, above |-> 0, back |-> 0,
   sends |-> 0, pubs |-> 0, clears |-> 0, tags |-> {}]

Cap(n) == IF n > CountCap THEN CountCap ELSE n

GateEvents == {"text", "photo", "delay", "set", "clear"}

Kind(m, v) ==
  IF isnan(v) THEN "invalid" ELSE IF v.tenths > Limit(m) THEN "above" ELSE "within"

\* The history g after a sample of the given kind for which the gate did d.
GateAfter(g, kind, d) ==
  LET sends  == Cardinality({ i \in DOMAIN d : d[i] \in {"text", "photo"} })
      tags   == { d[i] : i \in { j \in DOMAIN d : d[j] \notin GateEvents } }
      pubs   == Cardinality({ i \in DOMAIN d : d[i] \notin GateEvents })
      clears == Cardinality({ i \in DOMAIN d : d[i] = "clear" })
      Add(h) == [h EXCEPT !.sends = Cap(@ + sends), !.pubs = Cap(@ + pubs),
                          !.clears = Cap(@ + clears), !.tags = @ \cup tags]
  IN CASE kind = "invalid" -> Add([GateStart EXCEPT !.phase = "off"])
       [] kind = "within"  ->
            IF g.phase \in {"high", "back"}
              THEN Add([g EXCEPT !.phase = "back", !.back = Cap(@ + 1)])
              ELSE IF g.phase = "low" THEN Add([g EXCEPT !.below = Cap(@ + 1)])
              ELSE [GateStart EXCEPT !.below = 1]
       [] kind = "above"   ->
            IF g.phase = "low" THEN Add([g EXCEPT !.phase = "high", !.above = 1])
            ELSE IF g.phase = "back"
              THEN Add([GateStart EXCEPT !.phase = "high", !.below = g.back, !.above = 1])
            ELSE Add([g EXCEPT !.above = Cap(@ + 1)])

\* The gate has finished with the sample of metric m, having done d for it.
GateDone(m, d) ==
  /\ did'  = [did EXCEPT ![m] = d]
  /\ gate' = [gate EXCEPT ![m] = GateAfter(@, Kind(m, data[m]), d)]

\* Lines 36-38, 58-61 and 65-67, 86-89: the test of metric m and what follows
\* at once: the alert is begun (lines 43-46, 72-75), nothing is done, or the
\* flag is reset.
GateCheck(m) ==
  /\ pc["sensor"] = AtCheck(m)
  /\ IF AboveLimit(data[m], Limit(m))
       THEN IF ~Flag(m)
              THEN /\ CallSendAlert("sensor", WeatherMsg(m, data[m]), S_EMPTY, AtDelay(m))
                   /\ did' = [did EXCEPT ![m] =
                                <<IF tg'["sensor"].photo = S_EMPTY THEN "text" ELSE "photo">>]
                   /\ UNCHANGED <<tempAlertSent, humAlertSent, gate>>
              ELSE /\ Goto("sensor", AfterGate(m))
                   /\ GateDone(m, <<>>)
                   /\ UNCHANGED <<tempAlertSent, humAlertSent, sendVars>>
       ELSE /\ SetFlag(m, FALSE)
            /\ Goto("sensor", AfterGate(m))
            /\ GateDone(m, IF Flag(m) THEN <<"clear">> ELSE <<>>)
            /\ UNCHANGED sendVars
  /\ UNCHANGED <<millis, mp, rd, boot, motionVars, alertVars, mqttLog, data, xLastWakeTime, cycles, wake, resume>>

\* Lines 49 and 78: vTaskDelay(pdMS_TO_TICKS(1000)) after the Telegram call.
GateDelay(m) ==
  /\ pc["sensor"] = AtDelay(m)
  /\ Sleep("sensor", MQTT_SPACING_MS, AtPublish(m))
  /\ Forget("sensor")
  /\ did' = [did EXCEPT ![m] = Append(@, "delay")]
  /\ UNCHANGED <<millis, mp, rd, boot, motionVars, alertVars, sent, passed, mqttLog, data, xLastWakeTime, cycles,
                 tempAlertSent, humAlertSent, gate>>

\* Lines 52 and 81: the dashboard publish with the metric's tag.
GatePublish(m) ==
  /\ pc["sensor"] = AtPublish(m)
  /\ PublishAlert("sensor", AlertTag(m), S_EMPTY)
  /\ did' = [did EXCEPT ![m] = Append(@, mqttLog'["sensor"][Len(mqttLog'["sensor"])].value)]
  /\ Goto("sensor", AtSet(m))
  /\ UNCHANGED <<millis, mp, rd, boot, motionVars, alertVars, sendVars, data, xLastWakeTime, cycles,
                 tempAlertSent, humAlertSent, gate, wake, resume>>

\* A variant of GateSet that latches the flag only when the text send was
\* answered 200.
GateSetIfDelivered(m) ==
  /\ pc["sensor"] = AtSet(m)
  /\ SetFlag(m, sent["sensor"] # "none")
  /\ GateDone(m, Append(did[m], "set"))
  /\ sent' = [sent EXCEPT !["sensor"] = "-"]
  /\ Goto("sensor", AfterGate(m))
  /\ UNCHANGED <<millis, mp, rd, boot, motionVars, alertVars, tg, passed, mqttLog, data,
                 xLastWakeTime, cycles, wake, resume>>

\* Lines 55 and 84: the flag is set.
GateSet(m) ==
  /\ pc["sensor"] = AtSet(m)
  /\ SetFlag(m, TRUE)
  /\ GateDone(m, Append(did[m], "set"))
  /\ sent' = [sent EXCEPT !["sensor"] = "-"]
  /\ Goto("sensor", AfterGate(m))
  /\ UNCHANGED <<millis, mp, rd, boot, motionVars, alertVars, tg, passed, mqttLog, data, xLastWakeTime, cycles, wake, resume>>

checkWeatherAlerts ==
  \E m \in Metrics : GateCheck(m) \/ GateDelay(m) \/ GatePublish(m) \/ GateSet(m)

(* taskSensor, with Sensors::readAll and NetMQTT::publishEnv *)

\* The feed message of a reading (publishEnv lines 94 and 108).
PublishReading(feed, v) ==
  mqttLog' = [mqttLog EXCEPT !["sensor"] =
                Append(@, [feed |-> feed, value |-> "reading", tenths |-> v.tenths,
                           photo |-> S_EMPTY])]

\* A variant of SensorRead in which the sampling loop does not start an
\* iteration while the alert loop is inside a delivery.
SensorReadWaits ==
  /\ pc["sensor"] = "read"
  /\ pc["alert"] # "sendAlert"
  /\ \E t \in TempReadings, h \in HumReadings : data' = [temp |-> t, hum |-> h]
  /\ mqttLog' = [mqttLog EXCEPT !["sensor"] = <<>>]
  /\ Goto("sensor", "env_temp")
  /\ Begins("sensor")
  /\ UNCHANGED <<millis, mp, rd, boot, motionVars, alertVars, tg, sent, xLastWakeTime, cycles,
                 tempAlertSent, humAlertSent, did, gate, wake, resume>>

\* Line 77: auto data = Sensors::readAll()
SensorRead ==
  /\ pc["sensor"] = "read"
  /\ \E t \in TempReadings, h \in HumReadings : data' = [temp |-> t, hum |-> h]
  /\ mqttLog' = [mqttLog EXCEPT !["sensor"] = <<>>]
  /\ Goto("sensor", "env_temp")
  /\ Begins("sensor")
  /\ UNCHANGED <<millis, mp, rd, boot, motionVars, alertVars, tg, sent, xLastWakeTime, cycles,
                 tempAlertSent, humAlertSent, did, gate, wake, resume>>

\* publishEnv lines 90-102: the temperature feed, then delay(1000).
EnvTemp ==
  /\ pc["sensor"] = "env_temp"
  /\ IF ~isnan(data.temp)
       THEN /\ PublishReading("temperature", data.temp)
            /\ Sleep("sensor", ENV_SPACING_MS, "env_hum")
       ELSE /\ Goto("sensor", "env_hum")
            /\ UNCHANGED <<mqttLog, wake, resume>>
  /\ UNCHANGED <<millis, mp, rd, boot, motionVars, alertVars, sendVars, weatherVars>>

\* publishEnv lines 104-115: the humidity feed; then line 85 calls the gate.
EnvHum ==
  /\ pc["sensor"] = "env_hum"
  /\ IF ~isnan(data.hum)
       THEN PublishReading("humidity", data.hum)
       ELSE UNCHANGED mqttLog
  /\ Goto("sensor", "temp_check")
  /\ UNCHANGED <<millis, mp, rd, boot, motionVars, alertVars, sendVars, weatherVars, wake, resume>>

\* A relative wait in the place of line 92: one period from now.
SensorPeriodRelative ==
  /\ pc["sensor"] = "period"
  /\ xLastWakeTime' = millis + SENSOR_PERIOD_MS
  /\ cycles' = cycles + 1
  /\ Completes("sensor")
  /\ wake'   = [wake EXCEPT !["sensor"] = xLastWakeTime']
  /\ resume' = [resume EXCEPT !["sensor"] = "read"]
  /\ Goto("sensor", "delay")
  /\ UNCHANGED <<millis, mp, rd, boot, motionVars, alertVars, tg, sent, mqttLog, data,
                 tempAlertSent, humAlertSent, did, gate>>

\* Line 92: vTaskDelayUntil(&xLastWakeTime, xPeriod): the wake time moves on by
\* one period, and the task blocks until then unless that time has passed.
SensorPeriod ==
  /\ pc["sensor"] = "period"
  /\ xLastWakeTime' = xLastWakeTime + SENSOR_PERIOD_MS
  /\ cycles' = cycles + 1
  /\ Completes("sensor")
  /\ IF millis < xLastWakeTime'
       THEN /\ wake'   = [wake EXCEPT !["sensor"] = xLastWakeTime']
            /\ resume' = [resume EXCEPT !["sensor"] = "read"]
            /\ Goto("sensor", "delay")
       ELSE /\ Goto("sensor", "read")
            /\ UNCHANGED <<wake, resume>>
  /\ UNCHANGED <<millis, mp, rd, boot, motionVars, alertVars, tg, sent, mqttLog, data,
                 tempAlertSent, humAlertSent, did, gate>>

taskSensor ==
  \/ SensorRead \/ EnvTemp \/ EnvHum \/ checkWeatherAlerts \/ SensorPeriod
  \/ SendAlertReturns("sensor") \/ Wake("sensor")

----------------------------------------------------------------------------
(* Specifications *)

\* What setup() leaves behind for the interrupt, the alert task's locals and
\* the camera client (camera_client.cpp line 18: real mode).
\* Scheduler::initTasks, called once by setup() (part_001 line 252): at is the
\* statement it is at, attached whether attachInterrupt has been called, and
\* created (history) how many times each task has been created.
BootStartTasksFirst ==
  [at |-> "create_sensor", attached |-> FALSE, created |-> [t \in Tasks |-> 0]]

BootStart ==
  [at |-> "motion_init", attached |-> FALSE, created |-> [t \in Tasks |-> 0]]

BootDone ==
  [at |-> "done", attached |-> TRUE, created |-> [t \in Tasks |-> 1]]

\* Line 35: Motion::init(PIRPIN), which calls attachInterrupt (part_000 line 61).
InitAttach ==
  /\ boot.at = "motion_init"
  /\ boot' = [boot EXCEPT !.attached = TRUE, !.at = "create_sensor"]
  /\ UNCHANGED <<millis, mp, rd, motionVars, alertVars, sendVars, mqttLog, weatherVars, taskVars>>

\* Line 42: xTaskCreatePinnedToCore(taskSensor, ...); the task can run from now on.
InitCreateSensor ==
  /\ boot.at = "create_sensor"
  /\ boot' = [boot EXCEPT !.created["sensor"] = @ + 1, !.at = "create_alert"]
  /\ Goto("sensor", "read")
  /\ UNCHANGED <<millis, mp, rd, motionVars, alertVars, sendVars, mqttLog, weatherVars, wake, resume>>

\* Line 47: xTaskCreatePinnedToCore(taskAlert, ...).
InitCreateAlert ==
  /\ boot.at = "create_alert"
  /\ boot' = [boot EXCEPT !.created["alert"] = @ + 1, !.at = "done"]
  /\ Goto("alert", "poll")
  /\ UNCHANGED <<millis, mp, rd, motionVars, alertVars, sendVars, mqttLog, weatherVars, wake, resume>>

InitNode ==
  /\ millis = 0
  /\ motionFlag = FALSE
  /\ lastTriggerTime = 0
  /\ lastEdge = [gap |-> "none", after |-> FALSE, accepted |-> FALSE,
                 set |-> FALSE, noop |-> FALSE, midPoll |-> FALSE]
  /\ lastAlertTime = 0
  /\ alertNow = 0
  /\ photoURL = S_EMPTY
  /\ mockMode = FALSE
  /\ mockCaptureCount = 0
  /\ accepts = <<-1, -1>>
  /\ observed = [inside |-> FALSE, last |-> 0]
  /\ sent = [t \in Tasks |-> "-"]
  /\ passed = [t \in Tasks |-> 0]
  /\ mqttLog = [t \in Tasks |-> <<>>]
  /\ data = [temp |-> NaN, hum |-> NaN]
  /\ xLastWakeTime = 0
  /\ cycles = 0
  /\ tempAlertSent = FALSE
  /\ humAlertSent = FALSE
  /\ did = [m \in Metrics |-> <<>>]
  /\ gate = [m \in Metrics |-> GateStart]
  /\ wake = [t \in Tasks |-> 0]
  /\ resume = [t \in Tasks |-> "none"]

\* After setup(): Scheduler::initTasks has attached the interrupt and created
\* the alert task.
Init ==
  /\ InitNode
  /\ rd = RdIdle
  /\ boot = BootDone
  /\ tg = [t \in Tasks |-> TgIdle]
  /\ mp = MpIdle
  /\ pc = [t \in Tasks |-> IF t = "alert" THEN "poll" ELSE "off"]

\* The interrupt, the alert task and the clock.
NextMotion == TickOn(MotionInstants) \/ onMotion \/ taskAlert

SpecMotion == Init /\ [][NextMotion]_vars

(* Telegram::sendAlert on its own: one call, for each photo reference. *)

MaxBackoffs == 6    \* the sender's clock grid spans this many back-off units

SendInstants == { k * backoffBaseMs : k \in 0..MaxBackoffs }

S_NO_URL_DOC == <<"{", "\"", "i", "m", "g", "\"", ":", "\"", "x", "\"", "}">>

\* Photo references a call is given: none, the camera's address, a public
\* address, the mock camera's document, a document naming the camera, a
\* truncated document, a document without "url", an empty document.
PhotoInputs ==
  { S_EMPTY,
    CameraUrl,
    S_PICSUM \o <<"1">>,
    S_JSON_OPEN \o S_PICSUM \o <<"1">> \o S_JSON_CLOSE,
    S_JSON_OPEN \o CameraUrl \o S_JSON_CLOSE,
    S_JSON_OPEN \o S_PICSUM \o <<"1">>,
    S_NO_URL_DOC,
    <<"{", "}">> }

InitSend ==
  /\ InitNode
  /\ rd = RdIdle
  /\ boot = BootDone
  /\ \E photo \in PhotoInputs :
       tg = [t \in Tasks |-> IF t = "alert" THEN TgCall(S_MOTION, photo, "done") ELSE TgIdle]
  /\ mp = MpIdle
  /\ pc = [t \in Tasks |-> IF t = "alert" THEN "sendAlert" ELSE "off"]

NextSend == TickOn(SendInstants) \/ sendAlert("alert") \/ Wake("alert")

SpecSend == InitSend /\ [][NextSend]_vars

(* The private-address test on its own: the entry of one call, for each locator. *)

\* Dotted hosts h.<second>.0.9 for a first octet given as text.
Host(first, second) == first \o <<".">> \o DecStr(second) \o <<".", "0", ".", "9">>

\* Hosts inside and just outside each private range, a prefix without its
\* dot, and a name.
LocatorHosts ==
  { Host(<<"1", "0">>, 0), Host(<<"1", "0", "0">>, 0), Host(<<"1", "1">>, 0),
    Host(<<"1", "9", "2">>, 168), Host(<<"1", "9", "2">>, 169),
    Host(<<"1", "2", "7">>, 0), Host(<<"1", "2", "8">>, 0),
    <<"1", "7", "2", ".", "1", "6">>,
    <<"c", "a", "m", ".", "l", "a", "n">> }
  \cup { Host(<<"1", "7", "2">>, k) : k \in {15, 16, 24, 31, 32, 160} }

\* Locators: a scheme (http, https, ftp, http in capitals, none), a host, and
\* what follows the host: nothing, a path, a port and a path, a path that
\* itself names a private address.
Locators ==
  LET schemes == { S_HTTP, S_HTTPS, <<"f", "t", "p", ":", "/", "/">>,
                   <<"H", "T", "T", "P", ":", "/", "/">>, S_EMPTY }
      tails   == { S_EMPTY, S_JPG, <<":", "8", "0">> \o S_JPG,
                   <<"/">> \o Host(<<"1", "0">>, 0) }
  IN { sch \o h \o tl : sch \in schemes, h \in LocatorHosts, tl \in tails }

InitClassify ==
  /\ InitNode
  /\ rd = RdIdle
  /\ boot = BootDone
  /\ \E u \in Locators :
       tg = [t \in Tasks |-> IF t = "alert" THEN TgCall(S_MOTION, u, "done") ELSE TgIdle]
  /\ mp = MpIdle
  /\ pc = [t \in Tasks |-> IF t = "alert" THEN "sendAlert" ELSE "off"]

NextClassify == TgEntry("alert")

SpecClassify == InitClassify /\ [][NextClassify]_vars

(* The multipart assembly on its own: for each recipient, caption and image,
   at each instant of its clock. *)

MaxTicks == 2    \* the assembly's clock grid has this many instants after 0

MultipartInstants == { k * backoffBaseMs : k \in 0..MaxTicks }

\* Recipients: the configured one and a group's.
ChatIds == { TELEGRAM_CHATID, <<"-", "4", "2">> }

\* Captions: the motion alert's, and one with a line break in it.
Captions == { S_MOTION, <<"a">> \o CRLF \o <<"b">> }

\* Image bytes: one byte; a few bytes with a line break and dashes among
\* them; bytes among which the boundary line of instant 600 occurs.
Images ==
  { <<"J">>,
    <<"J", "\r", "\n", "-", "-", "F">>,
    <<"J">> \o CRLF \o DASHES \o Boundary(backoffBaseMs) \o CRLF \o <<"F">> }

InitMultipart ==
  /\ InitNode
  /\ rd = RdIdle
  /\ boot = BootDone
  /\ tg = [t \in Tasks |-> TgIdle]
  /\ pc = [t \in Tasks |-> "off"]
  /\ \E chatId \in ChatIds, text \in Captions, image \in Images :
       mp = MpFetched(chatId, text, image)

NextMultipart == TickOn(MultipartInstants) \/ MpParts \/ MpCopy

SpecMultipart == InitMultipart /\ [][NextMultipart]_vars

(* The image read loop on its own, iteration by iteration. *)

InitRead ==
  /\ InitNode
  /\ boot = BootDone
  /\ tg = [t \in Tasks |-> TgIdle]
  /\ mp = MpIdle
  /\ pc = [t \in Tasks |-> "off"]
  /\ \E len \in DeclaredLengths : rd = [at |-> "loop", iters |-> 0, r |-> ReadStart(len)]

\* Lines 312-360: one iteration of while (true).
ReadStep ==
  /\ rd.at = "loop"
  /\ rd.r.exit = "none"
  /\ rd.iters < MaxObs
  /\ \E o \in Observations :
       rd' = [rd EXCEPT !.r = ReadIteration(rd.r, o), !.iters = @ + 1]
  /\ UNCHANGED <<millis, mp, boot, motionVars, alertVars, sendVars, mqttLog, weatherVars, taskVars>>

NextRead == ReadStep

SpecRead == InitRead /\ [][NextRead]_vars

(* The sensor task on its own: readings, feeds and the weather gate. *)

InitWeather ==
  /\ InitNode
  /\ rd = RdIdle
  /\ boot = BootDone
  /\ tg = [t \in Tasks |-> TgIdle]
  /\ mp = MpIdle
  /\ pc = [t \in Tasks |-> IF t = "sensor" THEN "read" ELSE "off"]

NextWeather == TickOn(WeatherInstants) \/ taskSensor

SpecWeather == InitWeather /\ [][NextWeather]_vars

(* The node from the call of Scheduler::initTasks on: the interrupt and both tasks. *)

\* The instants at which the node's specification reads the clock: boot, the
\* end of the first cooldown interval and one spacing delay after it.
NodeInstants == {0, ALERT_COOLDOWN, ALERT_COOLDOWN + MQTT_SPACING_MS}

InitBoth ==
  /\ InitNode
  /\ rd = RdIdle
  /\ boot = BootStart
  /\ tg = [t \in Tasks |-> TgIdle]
  /\ mp = MpIdle
  /\ pc = [t \in Tasks |-> "off"]

NextBoth ==
  \/ TickOn(NodeInstants)
  \/ InitAttach \/ InitCreateSensor \/ InitCreateAlert
  \/ onMotion \/ taskAlert \/ taskSensor

SpecBoth == InitBoth /\ [][NextBoth]_vars

----------------------------------------------------------------------------
(* Properties *)

\* C1: any two accepted motion-alert sequences start at least ALERT_COOLDOWN
\* (60000 ms) apart: the acceptance times of the latest two sequences differ
\* by at least the cooldown.
C1_CooldownSpacing ==
  accepts[1] >= 0 => accepts[2] - accepts[1] >= ALERT_COOLDOWN

\* Two sequences have been accepted, the second exactly one cooldown after the first.
C1_Witness ==
  accepts[1] >= 0 /\ accepts[2] - accepts[1] = ALERT_COOLDOWN

\* C2: a call with a photo reference that no request delivered has attempted a
\* text-only send (sendMessage) by the time it returns.
C2_TextFallbackAttempted ==
  LET s == tg["alert"] IN
    (s.at = "return" /\ s.photo # S_EMPTY /\ Delivery(s) = "none")
      => \E i \in 1..Len(s.log) : s.log[i].op = "sendMessage"

\* C3: within one call no request follows a request answered 200, the final
\* request is issued at most once, and so at most one request is answered 200.
C3_NoDuplicate ==
  LET s == tg["alert"] IN
    /\ \A i \in 1..Len(s.log) : s.log[i].ok => (i = Len(s.log) /\ s.at = "return")
    /\ Cardinality({ i \in 1..Len(s.log) : s.log[i].op # "upload" }) <= 1
    /\ Cardinality({ i \in 1..Len(s.log) : s.log[i].ok }) <= 1

\* A call has returned after three failed uploads and a send-photo-by-URL
\* request answered 200.
C3_Witness ==
  LET s == tg["alert"] IN
    /\ s.at = "return"
    /\ Len(s.log) = maxUploadAttempts + 1
    /\ s.log[Len(s.log)].ok

\* C4 as amended: every edge more than DEBOUNCE_MS (5000 ms) after the
\* previously accepted edge sets motionFlag and moves lastTriggerTime to its
\* own time.
C4_EdgeBeyondWindowAccepted ==
  (lastEdge.after /\ lastEdge.gap = "beyond") => lastEdge.set

\* An edge has come more than the window after an accepted edge and was accepted.
C4_Witness ==
  lastEdge.after /\ lastEdge.gap = "beyond" /\ lastEdge.set /\ motionFlag

\* C4 as stated: every edge DEBOUNCE_MS (5000 ms) or more after the previously
\* accepted edge sets motionFlag and moves lastTriggerTime to its own time.
C4_EdgeAtWindowAccepted ==
  (lastEdge.after /\ lastEdge.gap \in {"at", "beyond"}) => lastEdge.set

\* C5: an edge less than DEBOUNCE_MS (5000 ms) after the last accepted edge
\* leaves motionFlag and lastTriggerTime as they were.
C5_EdgeInsideWindowNoop ==
  (lastEdge.after /\ lastEdge.gap = "inside") => lastEdge.noop

\* An edge has come inside the window of an accepted edge.
C5_Witness ==
  lastEdge.after /\ lastEdge.gap = "inside" /\ lastEdge.noop

\* C6: when the alert loop has observed motion inside the cooldown, it is not
\* capturing or delivering (no Telegram call, no dashboard publish) and
\* lastAlertTime is what it was at the observation.
C6_InsideCooldownNothing ==
  observed.inside =>
    /\ pc["alert"] \in {"delay", "poll", "clear", "cooldown"}
    /\ pc["alert"] = "delay" => resume["alert"] = "poll"
    /\ tg["alert"] = TgIdle
    /\ sent["alert"] = "-"
    /\ mqttLog["alert"] = <<>>
    /\ lastAlertTime = observed.last

\* Motion has been observed inside the cooldown that an earlier alert started,
\* and the task is back asleep.
C6_Witness ==
  observed.inside /\ observed.last > 0 /\ pc["alert"] = "delay"

\* C7: for each metric, over samples within the limit, then above it, then
\* within it again, the gate sends one alert and publishes once (with the
\* first sample above) and clears the flag once (with the first sample back),
\* sending nothing then, however many samples each phase has.
C7_OneAlertOneClear ==
  \A m \in Metrics :
    LET g == gate[m] IN
      /\ g.phase = "low"  => (g.sends = 0 /\ g.pubs = 0 /\ g.clears = 0)
      /\ g.phase = "high" => (g.sends = 1 /\ g.pubs = 1 /\ g.clears = 0)
      /\ g.phase = "back" => (g.sends = 1 /\ g.pubs = 1 /\ g.clears = 1)

\* A metric has had a sample within the limit, then two above it, then two within it.
C7_Witness ==
  \E m \in Metrics :
    gate[m].phase = "back" /\ gate[m].below >= 1 /\ gate[m].above >= 2 /\ gate[m].back >= 2

\* C8: an invalid reading of a metric leaves its flag false and sends and
\* publishes nothing, whatever the flag was; the next samples above the limit
\* give one alert and one publish and set the flag.
C8_InvalidForcesNormal ==
  \A m \in Metrics :
    LET g == gate[m] IN
      g.phase = "off" =>
        IF g.above = 0
          THEN ~Flag(m) /\ g.sends = 0 /\ g.pubs = 0
          ELSE Flag(m) /\ g.sends = 1 /\ g.pubs = 1 /\ g.tags = {AlertTag(m)}

\* An invalid reading has cleared a set flag, and a later sample above the
\* limit has alerted again.
C8_Witness ==
  \E m \in Metrics :
    gate[m].phase = "off" /\ gate[m].clears = 1 /\ gate[m].above >= 1 /\ gate[m].sends = 1

\* The steps of an alert of metric m, in order.
AlertSteps(m) == <<"text", "delay", AlertTag(m), "set">>

\* C9: for a sample that takes a metric from NORMAL to ALERTED the gate sends
\* the text alert without photo, then delays, then publishes with the metric's
\* tag, and only then sets the flag; and temperature samples 35.0, 35.0, 30.0
\* against the limit 34.0 give one text alert and one publish tagged
\* high_temperature, nothing with the second sample, and a cleared flag without
\* a send with the third.
C9_OrderAndScenarioA ==
  /\ \A m \in Metrics :
       /\ \/ did[m] \in {<<>>, <<"clear">>}
          \/ \E k \in 1..4 : did[m] = SubSeq(AlertSteps(m), 1, k)
       /\ (did[m] # <<>> /\ did[m][Len(did[m])] # "set") => ~Flag(m)
       /\ did[m] = AlertSteps(m) => Flag(m)
  /\ LET g == gate["temp"] IN
       /\ (g.phase = "high" /\ g.above \in {1, 2})
            => (g.sends = 1 /\ g.pubs = 1 /\ g.tags = {"high_temperature"} /\ g.clears = 0)
       /\ (g.phase = "back" /\ g.above = 2 /\ g.back = 1)
            => (g.sends = 1 /\ g.pubs = 1 /\ g.tags = {"high_temperature"} /\ g.clears = 1
                /\ ~tempAlertSent)

\* The temperature has read 35.0 twice from NORMAL and then 30.0.
C9_Witness ==
  /\ gate["temp"].phase = "back" /\ gate["temp"].above = 2 /\ gate["temp"].back = 1
  /\ data.temp = Reading(300) /\ TEMP_LIMIT = 340
  /\ did["temp"] = <<"clear">> /\ pc["sensor"] = "hum_check"

\* C10: a call whose photo reference begins with "{" but does not parse or has
\* no "url" member makes no fetch, no upload and no send-photo-by-URL request
\* with the document as the locator, and has sent the alert as text when it
\* returns.
C10_BadDocumentSentAsText ==
  LET s == tg["alert"]
      doc == ParseDoc(s.photo)
  IN (s.at # "idle" /\ StartsWith(s.photo, <<"{">>) /\ (doc.error \/ doc.key # S_URL))
       => /\ s.fetchAttempt = 0
          /\ s.uploadAttempt = 0
          /\ ~(s.url.op = "sendPhoto" /\ s.url.photo = s.photo)
          /\ s.at = "return" => \E i \in 1..Len(s.log) : s.log[i].op = "sendMessage"

\* The text of a locator between a scheme it starts with and the first "/"
\* after that scheme.
C11_Between(u, scheme) ==
  LET n     == Len(scheme)
      stops == { i \in (n + 1)..Len(u) : u[i] = "/" }
      first == IF stops = {} THEN Len(u) + 1
               ELSE CHOOSE i \in stops : \A j \in stops : i <= j
  IN [k \in 1..(first - 1 - n) |-> u[n + k]]

C11_Digit(c) == IF \E d \in 0..9 : Digits[d + 1] = c
                  THEN CHOOSE d \in 0..9 : Digits[d + 1] = c ELSE -1

\* A host begins with 10., 192.168., 127. or with 172.<16..31>. .
C11_PrivateHost(h) ==
  \/ StartsWith(h, <<"1", "0", ".">>)
  \/ StartsWith(h, <<"1", "9", "2", ".", "1", "6", "8", ".">>)
  \/ StartsWith(h, <<"1", "2", "7", ".">>)
  \/ /\ StartsWith(h, <<"1", "7", "2", ".">>)
     /\ Len(h) >= 7
     /\ h[7] = "."
     /\ C11_Digit(h[5]) >= 0 /\ C11_Digit(h[6]) >= 0
     /\ 10 * C11_Digit(h[5]) + C11_Digit(h[6]) \in 16..31

C11_Private(u) ==
  \E scheme \in {S_HTTP, S_HTTPS} :
    StartsWith(u, scheme) /\ C11_PrivateHost(C11_Between(u, scheme))

\* C11: a locator is classified private exactly when it starts with http://
\* or https:// and the text between the scheme and the first "/" begins with
\* 10., 192.168., 127. or 172.16. to 172.31.; every other locator is public.
C11_PrivateExactlyLiteralPrefixes ==
  tg["alert"].at # "entry" =>
    tg["alert"].isPrivate = C11_Private(tg["alert"].imageUrl)

\* A locator at the upper edge of 172.16.0.0/12 has been classified private.
C11_Witness ==
  /\ tg["alert"].at = "get"
  /\ tg["alert"].isPrivate
  /\ tg["alert"].imageUrl = S_HTTPS \o Host(<<"1", "7", "2">>, 31) \o S_JPG

\* C12: for a private locator a call makes at least 1 and at most 3 GET
\* attempts; once an attempt has succeeded (the buffer is held) the call is
\* never again at a GET or at a body read; and the loop is left without a
\* buffer only after 3 attempts.
C12_FetchAttemptsBounded ==
  LET s == tg["alert"]
  IN s.isPrivate /\ s.at # "entry" =>
       /\ s.fetchAttempt <= maxFetchAttempts
       /\ (s.at # "get" => s.fetchAttempt >= 1)
       /\ (s.imgBuf = "buf" => s.at \notin {"get", "body"})
       /\ (s.at \in {"fetched", "post", "final", "return"} /\ s.imgBuf = "null"
             => s.fetchAttempt = maxFetchAttempts)

\* The second GET attempt succeeded after a failed first one, and the upload
\* is under way.
C12_Witness ==
  LET s == tg["alert"]
  IN s.isPrivate /\ s.at = "post" /\ s.fetchAttempt = 2 /\ s.imgBuf = "buf"

\* C13: when the response declares a length L > 0, the attempt is successful
\* (the buffer is held, with size L) exactly when the bytes read equal L; with
\* fewer bytes read the attempt has failed, no buffer is held and the recorded
\* size is 0.
C13_DeclaredLengthExact ==
  LET s == tg["alert"]
  IN s.readExit \notin {"none", "nomalloc"} /\ s.contentLength > 0 =>
       /\ (s.imgBuf = "buf") = (s.readTotal = s.contentLength)
       /\ (s.imgBuf = "buf" => s.imgSize = s.contentLength)
       /\ (s.readTotal < s.contentLength =>
             s.imgBuf = "null" /\ s.imgSize = 0 /\ s.imgLive = 0)

\* Half of the declared bytes arrived before the peer closed: the attempt
\* failed and a retry is pending.
C13_Witness ==
  LET s == tg["alert"]
  IN /\ s.contentLength = 2 * CHUNK /\ s.readTotal = CHUNK /\ s.readExit = "closed"
     /\ s.imgBuf = "null" /\ s.imgSize = 0 /\ s.at = "get"

\* C14: when the response declares no length, an attempt is successful (the
\* buffer is held) only if at least one byte was read and the read loop was
\* not ended by the idle timeout.
C14_UnknownLengthNeedsCleanEnd ==
  LET s == tg["alert"]
  IN s.readExit \notin {"none", "nomalloc"} /\ s.contentLength <= 0 /\ s.imgBuf = "buf" =>
       s.readTotal >= 1 /\ s.readExit # "idle"

\* C15: an attempt in which no byte arrived for more than maxIdleMs (12000 ms)
\* before the transfer was complete has failed: no buffer is held, the size
\* is 0, and a retry is pending unless this was the third attempt; and an
\* attempt whose declared bytes all arrived is a success.
C15_IdleTimeoutFailsAttempt ==
  LET s == tg["alert"]
  IN /\ s.idleFor > maxIdleMs =>
          /\ s.imgBuf = "null" /\ s.imgSize = 0
          /\ s.at = "get" \/ s.fetchAttempt = maxFetchAttempts
     /\ s.readExit = "complete" => s.imgBuf = "buf" /\ s.imgSize = s.contentLength

\* C16: an attempt whose buffer could not be grown after a partial read has
\* failed: no buffer is held and the call does not go on to assemble a payload
\* from the bytes read so far.
C16_ReallocFailureFailsAttempt ==
  LET s == tg["alert"]
  IN s.readExit = "nomem" => s.imgBuf = "null" /\ s.imgSize = 0 /\ s.at # "post"

C17_Waits(s, loop) == SelectSeq(s.backoffs, LAMBDA b : b.loop = loop)

C18_Occurrences(p, d) ==
  { i \in 0..(Len(p) - Len(d)) : SubSeq(p, i + 1, i + Len(d)) = d }

\* What a payload splits into at its boundary lines (a line break, two
\* dashes, the boundary; the payload's first boundary line has no line break
\* before it): for each stretch between two boundary lines, what follows the
\* blank line that ends the stretch's headers.
C18_Split(payload, boundary) ==
  LET d     == CRLF \o DASHES \o boundary
      p     == CRLF \o payload
      occ   == C18_Occurrences(p, d)
      nth(k) == CHOOSE i \in occ : Cardinality({ j \in occ : j < i }) = k - 1
      part(k) == Substring(p, nth(k) + Len(d), nth(k + 1))
      content(x) == LET blank == IndexOf(x, CRLF \o CRLF)
                    IN IF blank < 0 THEN x ELSE SubstringFrom(x, blank + 4)
  IN [k \in 1..(Cardinality(occ) - 1) |-> content(part(k))]

\* C18: splitting the assembled payload at its boundary token gives back
\* exactly the recipient id, the caption and the image bytes, in this order,
\* whatever they are.
C18_RoundTrip ==
  mp.at = "assembled" =>
    C18_Split(mp.body, mp.boundary) = <<mp.chatId, mp.text, mp.imgBuf>>

\* C19: the payload is one buffer of len(pre) + imgSize + len(post) bytes, all
\* written: pre, holding the chat_id field, the caption field and the photo
\* field's headers in this order and ending with Content-Type: image/jpeg and
\* a blank line; then the image bytes, at positions len(pre) up to
\* len(pre) + imgSize; then the terminating boundary.
C19_ContiguousLayout ==
  mp.at = "assembled" =>
    LET n == Len(mp.pre)
        typeLine == S_CONTENT_TYPE \o CRLF \o CRLF
    IN /\ Len(mp.body) = n + mp.imgSize + Len(mp.post)
       /\ mp.totalLen = Len(mp.body)
       /\ \A i \in 1..Len(mp.body) : mp.body[i] # "uninit"
       /\ Substring(mp.body, 0, n) = mp.pre
       /\ Substring(mp.body, n, n + mp.imgSize) = mp.imgBuf
       /\ SubstringFrom(mp.body, n + mp.imgSize) = CRLF \o DASHES \o mp.boundary \o DASHES \o CRLF
       /\ StartsWith(mp.body, DASHES \o mp.boundary \o CRLF \o S_DISP_CHAT_ID)
       /\ IndexOf(mp.body, S_DISP_CHAT_ID) < IndexOf(mp.body, S_DISP_CAPTION)
       /\ IndexOf(mp.body, S_DISP_CAPTION) < IndexOf(mp.body, S_DISP_PHOTO)
       /\ IndexOf(mp.body, S_DISP_PHOTO) + Len(S_DISP_PHOTO) + 2 + Len(typeLine) = n
       /\ Substring(mp.body, n - Len(typeLine), n) = typeLine

\* A payload has been assembled for the configured recipient around an image
\* of six bytes.
C19_Witness ==
  /\ mp.at = "assembled"
  /\ mp.chatId = TELEGRAM_CHATID
  /\ mp.imgSize = 6
  /\ Len(mp.body) > Len(mp.pre) + 6

\* C20: once the fetched image has been copied into the payload, and before
\* the first upload attempt, the fetched image buffer has been released.
C20_ImageReleasedBeforeUpload ==
  LET s == tg["alert"]
  IN s.at = "post" /\ s.body = "held" => s.imgLive = 0

\* C21: no image buffer is ever lost while live or freed twice; when the call
\* is past the multipart path (at the final request or returned) the buffer
\* a fetch attempt allocated is not live and the payload is not held; and
\* after a successful fetch the buffer has been freed by then.
C21_BuffersReleasedOnce ==
  LET s == tg["alert"]
  IN /\ ~s.leaked /\ ~s.doubleFree
     /\ s.imgLive \in {0, 1}
     /\ s.at \in {"final", "return"} =>
          /\ s.block # "live" /\ s.imgLive = 0
          /\ s.body # "held"
          /\ s.imgBuf = "buf" => s.block = "freed"
          /\ s.uploadAttempt > 0 => s.body = "released"

\* The call returned after a failed first fetch attempt, a successful second
\* one and three failed uploads: both buffers and the payload are released.
C21_Witness ==
  LET s == tg["alert"]
  IN /\ s.at = "return" /\ s.fetchAttempt = 2 /\ s.uploadAttempt = maxUploadAttempts
     /\ s.upCode # HTTP_OK /\ s.block = "freed" /\ s.body = "released"
     /\ s.backoffs[1].loop = "fetch"

\* C22: a call makes at most 3 POSTs, each of the payload assembled once and
\* still held; a POST answered 200 ends the call at once; after a POST with
\* any other outcome (another status, a transport error) another POST is
\* pending while fewer than 3 have been made, and none after the third.
C22_UploadAttemptsBounded ==
  LET s == tg["alert"]
      posts == { i \in 1..Len(s.log) : s.log[i].op = "upload" }
  IN /\ Cardinality(posts) = s.uploadAttempt
     /\ s.uploadAttempt <= maxUploadAttempts
     /\ s.uploadAttempt > 0 =>
          /\ s.body = IF s.at = "post" THEN "held" ELSE "released"
          /\ s.upCode = HTTP_OK => s.at = "return" /\ s.log[Len(s.log)].op = "upload"
          /\ s.upCode # HTTP_OK /\ s.uploadAttempt < maxUploadAttempts => s.at = "post"
          /\ s.upCode # HTTP_OK /\ s.uploadAttempt = maxUploadAttempts => s.at # "post"
          /\ \A i \in posts : s.log[i].ok => i = Len(s.log)
     /\ s.at = "post" => s.uploadAttempt < maxUploadAttempts

\* The third POST is pending after a status 404 and a transport error.
C22_Witness ==
  LET s == tg["alert"]
  IN /\ s.at = "post" /\ s.uploadAttempt = 2 /\ s.upCode = -1
     /\ ~s.log[1].ok /\ ~s.log[2].ok /\ pc["alert"] = "sendAlert"

\* The first GET of a call was answered 200 and the body read delivered
\* exactly the declared bytes.
C23_FirstFetchExact(s) ==
  /\ s.isPrivate /\ s.fetchAttempt = 1 /\ s.code = HTTP_OK
  /\ s.contentLength > 0 /\ s.readTotal = s.contentLength /\ s.readExit = "complete"

\* C23 (scenario B): once the first fetch of a private locator has returned
\* 200 and delivered exactly the declared bytes, no step of the call makes
\* another GET; and when the first POST is then answered 200 the call has
\* returned with that POST as its only Telegram request: one fetch, one
\* upload, no send-photo-by-URL and no text-only request.
C23_ScenarioB ==
  /\ [](LET s == tg["alert"]
        IN C23_FirstFetchExact(s) /\ s.log # <<>> /\ s.log[1] = Request("upload", HTTP_OK) =>
             /\ s.at = "return"
             /\ s.uploadAttempt = 1
             /\ s.log = <<Request("upload", HTTP_OK)>>
             /\ s.url = NoUrl
             /\ s.backoffs = <<>>)
  /\ [][C23_FirstFetchExact(tg["alert"]) =>
          /\ tg'["alert"].fetchAttempt = 1
          /\ tg["alert"].at = "return" => tg'["alert"].log = tg["alert"].log]_vars

\* Scenario B has run to its end: 12000 bytes declared and delivered, one
\* POST answered 200.
C23_Witness ==
  LET s == tg["alert"]
  IN /\ C23_FirstFetchExact(s) /\ s.contentLength = 2 * CHUNK
     /\ s.text = S_MOTION
     /\ s.at = "return" /\ s.log = <<Request("upload", HTTP_OK)>>

C26_PathByClassification ==
  LET s == tg["alert"]
      direct(u) == /\ s.fetchAttempt = 0 /\ s.uploadAttempt = 0 /\ s.body = "none"
                   /\ s.at \in {"final", "return"}
                   /\ s.url = u
                   /\ Len(s.log) = IF s.at = "return" THEN 1 ELSE 0
                   /\ s.at = "return" => s.log[1].op = u.op
  IN s.at # "entry" =>
       /\ s.photo = S_EMPTY => direct(TextUrl(s.text))
       /\ s.photo # S_EMPTY /\ ~isPrivateHttpUrl(ExtractImageUrl(s.photo)) =>
            direct(PhotoUrl(ExtractImageUrl(s.photo), s.text))
       /\ s.photo # S_EMPTY /\ isPrivateHttpUrl(ExtractImageUrl(s.photo)) =>
            /\ s.at # "get" => s.fetchAttempt >= 1
            /\ s.at = "get" /\ s.fetchAttempt = 0 => s.log = <<>>
            /\ s.uploadAttempt > 0 => s.imgBuf = "buf"

\* A call for a public address has returned after its one send-photo-by-URL
\* request.
C26_Witness ==
  LET s == tg["alert"]
  IN /\ s.photo = S_PICSUM \o <<"1">> /\ ~s.isPrivate
     /\ s.at = "return" /\ s.fetchAttempt = 0 /\ s.uploadAttempt = 0
     /\ Len(s.log) = 1 /\ s.log[1].op = "sendPhoto"

\* C28: with the task started at tick 0, after k iterations the wake time of
\* the sampling loop is k * 30000 ms, whatever time the iterations took; a
\* task waiting for its next iteration wakes at that time, and an iteration
\* that ended after its deadline starts the next one at once.
C28_AbsoluteDeadline ==
  /\ xLastWakeTime = cycles * 30000
  /\ pc["sensor"] = "delay" /\ resume["sensor"] = "read" =>
       wake["sensor"] = cycles * 30000
  /\ pc["sensor"] \notin {"delay", "off"} /\ cycles > 0 => millis >= (cycles - 1) * 30000

\* The second iteration began at 30000 ms and took 1000 ms; the third is
\* scheduled at 60000 ms, not at 61000 ms.
C28_Witness ==
  /\ cycles = 2 /\ millis = SENSOR_PERIOD_MS + ENV_SPACING_MS
  /\ pc["sensor"] = "delay" /\ resume["sensor"] = "read"
  /\ wake["sensor"] = 2 * SENSOR_PERIOD_MS
  /\ Len(mqttLog["sensor"]) >= 2

\* C30: when the handler accepted a trigger and set the flag after the alert
\* loop had read it and before the loop cleared it, the flag is still set
\* once the loop has cleared: the trigger is pending for the next poll.
C30_SetSurvivesClear ==
  pc["alert"] = "cooldown" /\ lastEdge.gap = "beyond" /\ lastEdge.set /\ lastEdge.midPoll
    => motionFlag

\* C29: the two loops are independent. A loop that has been started and is not
\* inside one of its own delays always has a step it can take, whatever the other loop is doing
\* (blocked inside a delivery, waiting out a backoff or a spacing delay, or
\* publishing), and a loop inside a delay can go on as soon as the clock has
\* reached the end of that delay; a step of one loop changes neither the point
\* the other loop is at, nor its pending delay, nor the locals of its running
\* sendAlert call.
C29_Loop(t) == IF t = "alert" THEN taskAlert ELSE taskSensor

C29_Own(t) == <<pc[t], wake[t], resume[t], tg[t], sent[t], mqttLog[t]>>

C29_LoopsIndependent ==
  /\ [](\A t \in Tasks :
          pc[t] # "off" /\ (pc[t] # "delay" \/ millis >= wake[t]) => ENABLED C29_Loop(t))
  /\ [][\A t \in Tasks : C29_Loop(t) => C29_Own(Other(t))' = C29_Own(Other(t))]_vars

\* The alert loop is still inside the sendAlert call of a delivery, and during
\* that call the sampling loop has begun and finished a whole iteration.
C29_Witness == pc["alert"] = "sendAlert" /\ passed["alert"] = 2

\* The converse: the sampling loop is still inside the sendAlert call of a
\* weather alert, and during that call the alert loop has polled the flag,
\* delivered a motion alert and published it.
C29_WitnessConverse == pc["sensor"] = "sendAlert" /\ passed["sensor"] = 2

\* C27: every accepted motion results in exactly one dashboard publish, with
\* reason "motion" and an empty photo locator, issued after sendAlert has
\* returned and whatever the Telegram outcome was: from the acceptance up to
\* the publish step the handler has published nothing, after it exactly that
\* one message; and no dashboard publish of either task carries a photo
\* locator.
C27_Handling == {"capture", "sendAlert", "motion_delay", "motion_publish", "set_last"}

C27_MotionPublish == [feed |-> "alerts", value |-> "motion", tenths |-> 0, photo |-> S_EMPTY]

C27_OnePublishNoPhoto ==
  /\ pc["alert"] \in C27_Handling \/ (pc["alert"] = "delay" /\ resume["alert"] = "motion_publish")
       => mqttLog["alert"] = IF pc["alert"] = "set_last" THEN <<C27_MotionPublish>> ELSE <<>>
  /\ pc["alert"] \in {"motion_publish", "set_last"}
       => sent["alert"] # "-" /\ tg["alert"] = TgIdle
  /\ \A t \in Tasks : \A i \in 1..Len(mqttLog[t]) : mqttLog[t][i].photo = S_EMPTY

\* The motion alert reached nobody on Telegram (every request failed), the
\* photo had a locator, and the dashboard publish has been made all the same,
\* while the sampling loop has published to the dashboard as well.
C27_Witness ==
  /\ pc["alert"] = "set_last"
  /\ sent["alert"] = "none"
  /\ photoURL # S_EMPTY
  /\ mqttLog["alert"] = <<C27_MotionPublish>>
  /\ mqttLog["sensor"] # <<>>

\* C31: each piece of shared state has a single writer context.
\* lastTriggerTime changes only in a step of the interrupt handler, which never
\* turns motionFlag from true to false; motionFlag turns false only in a step
\* of the alert loop, which never turns it true; lastAlertTime changes only in
\* a step of the alert loop; tempAlertSent and humAlertSent change only in a
\* step of checkWeatherAlerts; and no step of one context changes a variable
\* owned by another.
C31_SingleWriters ==
  [][/\ lastTriggerTime' # lastTriggerTime => onMotion
     /\ motionFlag' /\ ~motionFlag => onMotion
     /\ ~motionFlag' /\ motionFlag => AlertClear
     /\ lastAlertTime' # lastAlertTime => AlertSetLast
     /\ tempAlertSent' # tempAlertSent \/ humAlertSent' # humAlertSent => checkWeatherAlerts
     /\ onMotion => UNCHANGED <<lastAlertTime, tempAlertSent, humAlertSent>>
     /\ taskAlert => UNCHANGED <<lastTriggerTime, tempAlertSent, humAlertSent>>
     /\ taskSensor => UNCHANGED <<motionFlag, lastTriggerTime, lastAlertTime>>]_vars

\* Every owner has written its variables: an edge was accepted and its flag
\* cleared by the alert loop, a motion alert has restarted the cooldown, and a
\* weather flag is set.
C31_Witness ==
  /\ lastTriggerTime > 0
  /\ ~motionFlag
  /\ lastAlertTime > 0
  /\ tempAlertSent \/ humAlertSent

\* C32: every call of sendAlert terminates; in particular the image read
\* loop always exits once no forward progress has been made for the idle
\* timeout: an iteration that reads no byte and finds that 12000 ms or more
\* have passed since the last byte arrived leaves the loop.
C32_ReadLoopExitsWhenIdle ==
  [][ReadStep /\ rd'.r.readTotal = rd.r.readTotal
              /\ rd'.r.clock - rd.r.lastProgress >= maxIdleMs
       => rd'.r.exit # "none"]_vars

\* C36: throughout a fetch attempt the bytes written never exceed the buffer
\* capacity. With a declared length L (> 0) the capacity is L from the start
\* and stays L, and the bytes read never exceed L; otherwise the capacity
\* starts at 8192 and changes only before a read that would overflow it, to
\* max(2 x capacity, bytes read + bytes to read). Every read fits into the
\* capacity of the moment, and the count of bytes already read never drops.
C36_Max(a, b) == IF a > b THEN a ELSE b

C36_WithinCapacity ==
  /\ [](/\ rd.r.readTotal <= rd.r.cap
        /\ rd.r.contentLength > 0 => rd.r.cap = rd.r.contentLength
        /\ rd.iters = 0 /\ rd.r.contentLength <= 0 => rd.r.cap = DEFAULT_CAP)
  /\ [][ReadStep =>
         LET need == rd.r.readTotal + rd'.r.toRead IN
           /\ rd'.r.readTotal >= rd.r.readTotal
           /\ rd'.r.readTotal <= need
           /\ rd'.r.exit # "nomem" => need <= rd'.r.cap
           /\ rd'.r.cap = IF rd.r.contentLength <= 0 /\ need > rd.r.cap /\ rd'.r.exit # "nomem"
                             THEN C36_Max(2 * rd.r.cap, need) ELSE rd.r.cap]_vars

\* With no declared length 6000 bytes were read into the 8192-byte buffer and
\* 6000 more after it had been doubled.
C36_Witness ==
  /\ rd.r.contentLength <= 0
  /\ rd.r.cap = 2 * DEFAULT_CAP
  /\ rd.r.readTotal = 2 * CHUNK

\* C33: the cooldown timestamp recorded for an accepted motion is the time of
\* its acceptance, read before the capture, not the time the delivery
\* sequence is complete; so an observed motion is accepted exactly when
\* 60000 ms or more have passed since the latest acceptance (since boot,
\* before the first), however long the delivery took.
C33_CooldownFromAcceptance ==
  /\ [](/\ pc["alert"] \in {"capture", "sendAlert", "motion_delay", "motion_publish", "set_last"}
             => alertNow = accepts[2]
        /\ lastAlertTime = IF pc["alert"] \in {"capture", "sendAlert", "motion_delay",
                                                "motion_publish", "set_last"}
                                \/ (pc["alert"] = "delay" /\ resume["alert"] = "motion_publish")
                             THEN (IF accepts[1] >= 0 THEN accepts[1] ELSE 0)
                             ELSE (IF accepts[2] >= 0 THEN accepts[2] ELSE 0))
  /\ [][/\ AlertSetLast => lastAlertTime' = accepts[2]
        /\ AlertCooldown =>
             LET since == IF accepts[2] >= 0 THEN accepts[2] ELSE 0
             IN (pc'["alert"] = "capture" /\ accepts'[2] = millis)
                  <=> millis - since >= ALERT_COOLDOWN]_vars

\* A motion is accepted exactly 60000 ms after the acceptance before it, whose
\* delivery sequence was complete only later than its acceptance.
C33_Witness ==
  /\ pc["alert"] = "capture"
  /\ accepts[1] > 0
  /\ lastAlertTime = accepts[1]
  /\ accepts[2] = millis
  /\ millis - accepts[1] = ALERT_COOLDOWN

\* C34: motion observed during the first 60000 ms after boot is suppressed.
\* While the clock is below 60000 ms nothing has been accepted, the alert
\* loop is only polling, clearing the flag, testing the cooldown or sleeping,
\* no Telegram call and no dashboard publish has been made; and every
\* cooldown test made before 60000 ms sends the loop back to sleep.
C34_FirstMinuteSuppressed ==
  /\ [](millis < ALERT_COOLDOWN =>
          /\ accepts = <<-1, -1>>
          /\ lastAlertTime = 0
          /\ pc["alert"] \in {"poll", "clear", "cooldown", "delay"}
          /\ pc["alert"] = "delay" => resume["alert"] = "poll"
          /\ tg["alert"] = TgIdle /\ sent["alert"] = "-" /\ photoURL = S_EMPTY
          /\ mqttLog["alert"] = <<>>)
  /\ [][AlertCooldown /\ millis < ALERT_COOLDOWN
           => pc'["alert"] = "delay" /\ observed'.inside /\ UNCHANGED accepts]_vars

\* One millisecond before the clock reaches 60000 ms the alert loop has
\* observed a motion and gone back to sleep.
C34_Witness ==
  /\ millis = ALERT_COOLDOWN - 1
  /\ lastTriggerTime > 0
  /\ observed.inside /\ observed.last = 0
  /\ ~motionFlag
  /\ pc["alert"] = "delay"

\* C35: Scheduler::initTasks installs the motion interrupt handler before
\* either loop is started. A task that exists was created after the handler
\* had been attached; the alert loop never reads the debounce flag, and the
\* handler never runs, before the handler is attached; each task is created
\* once, the sampling task before the alert task, and both exist when
\* initTasks is done.
C35_AttachBeforeLoops ==
  /\ [](/\ \A t \in Tasks : pc[t] # "off" <=> boot.created[t] = 1
        /\ \A t \in Tasks : boot.created[t] \in {0, 1}
        /\ \A t \in Tasks : boot.created[t] = 1 => boot.attached
        /\ boot.created["alert"] = 1 => boot.created["sensor"] = 1
        /\ boot.at = "done" <=> \A t \in Tasks : boot.created[t] = 1
        /\ ~boot.attached => ~motionFlag /\ lastTriggerTime = 0)
  /\ [][/\ AlertPoll \/ onMotion => boot.attached
        /\ boot.created' # boot.created => InitCreateSensor \/ InitCreateAlert]_vars

\* initTasks is done, the handler has accepted an edge, the alert loop has
\* read the flag it set, and the sampling loop has finished an iteration.
C35_Witness ==
  /\ boot.at = "done"
  /\ lastEdge.accepted
  /\ pc["alert"] = "clear"
  /\ cycles > 0

\* C37: a motion observed during the cooldown is discarded, not deferred.
\* The poll clears the flag before the cooldown is tested; a cooldown test
\* that fails issues nothing and sends the loop to sleep; and the flag turns
\* true again only when the interrupt handler accepts a new edge, so nothing
\* is left of the discarded trigger when the cooldown has expired.
C37_DiscardedNotDeferred ==
  /\ [](pc["alert"] = "clear" \/ motionFlag => lastEdge.accepted /\ lastTriggerTime > 0)
  /\ [][/\ AlertClear => ~motionFlag' /\ pc'["alert"] = "cooldown"
        /\ AlertCooldown /\ ~CooldownElapsed(millis, lastAlertTime)
             => /\ pc'["alert"] = "delay" /\ resume'["alert"] = "poll"
                /\ UNCHANGED <<motionFlag, accepts, lastAlertTime, tg, sent, mqttLog>>
        /\ motionFlag' /\ ~motionFlag
             => onMotion /\ lastTriggerTime' = millis /\ lastTriggerTime' # lastTriggerTime
        /\ pc'["alert"] = "capture" /\ pc["alert"] # "capture"
             => AlertCooldown /\ CooldownElapsed(millis, lastAlertTime)]_vars

\* A motion was observed and dropped inside the cooldown; the cooldown has
\* expired since, and the alert loop has just polled and found no motion.
C37_Witness ==
  /\ observed.inside
  /\ lastTriggerTime > 0
  /\ ~motionFlag
  /\ millis - lastAlertTime >= ALERT_COOLDOWN
  /\ pc["alert"] = "delay" /\ resume["alert"] = "poll"
  /\ wake["alert"] = millis + ALERT_POLL_MS

\* C38: the weather flag is latched on the rising edge whatever the delivery
\* outcome. The text send of a weather alert is one request and is not
\* retried; after it the gate delays, publishes and sets the flag, also when
\* the request was not answered 200 (what the publish returns is not looked
\* at); and while the flag is set a valid sample above the limit makes the
\* gate do nothing: no send, no publish, the flag stays set.
C38_LatchedWhateverOutcome ==
  /\ [](/\ pc["sensor"] = "sendAlert" =>
             \A o \in Run({tg["sensor"]}) :
               Len(o.log) = 1 /\ o.log[1].op = "sendMessage" /\ o.backoffs = <<>>
        /\ \A m \in Metrics :
             pc["sensor"] = AtSet(m) =>
               /\ sent["sensor"] \in {"none", "sendMessage"}
               /\ did[m] = SubSeq(AlertSteps(m), 1, 3)
               /\ Len(mqttLog["sensor"]) > 0
               /\ mqttLog["sensor"][Len(mqttLog["sensor"])].value = AlertTag(m))
  /\ [][\A m \in Metrics :
          /\ GateSet(m) => Flag(m)' /\ did'[m] = AlertSteps(m)
          /\ GateCheck(m) /\ Flag(m) /\ AboveLimit(data[m], Limit(m))
               => /\ Flag(m)' /\ pc'["sensor"] = AfterGate(m)
                  /\ UNCHANGED <<tg, sent, mqttLog>>]_vars

\* The text send of a temperature alert was not answered 200; the dashboard
\* publish has been made all the same and the flag is about to be set.
C38_Witness ==
  /\ pc["sensor"] = AtSet("temp")
  /\ sent["sensor"] = "none"
  /\ ~tempAlertSent
  /\ did["temp"] = <<"text", "delay", "high_temperature">>

\* C39: the dashboard-publish primitive is never executed by both loops at
\* once: the alert loop takes no step of publishAlert on the shared MQTT client
\* while the sampling loop is inside publishEnv (in its delay between the two
\* feeds, or between that delay and the publish of the humidity feed) or at
\* the publish of a weather alert.
C39_SensorInPublish ==
  \/ pc["sensor"] = "env_hum"
  \/ pc["sensor"] = "delay" /\ resume["sensor"] = "env_hum"
  \/ \E m \in Metrics : pc["sensor"] = AtPublish(m)

C39_PublishExclusive == [][AlertPublish => ~C39_SensorInPublish]_vars

\* The gate of metric m is at work: from its test to its flag assignment,
\* the Telegram call in between included.
C40_InGate(m) ==
  \/ pc["sensor"] \in {AtCheck(m), AtDelay(m), AtPublish(m), AtSet(m)}
  \/ tg["sensor"].at # "idle" /\ tg["sensor"].ret = AtDelay(m)
  \/ pc["sensor"] = "delay" /\ resume["sensor"] = AtPublish(m)

\* The metric that is not m.
C40_Rest(m) == IF m = "temp" THEN "hum" ELSE "temp"

\* The sample of metric m is valid and strictly above the metric's limit.
C40_Over(m) == data[m].valid /\ data[m].tenths > Limit(m)

\* C40: the two weather gates are independent and keep one bit each.  When
\* checkWeatherAlerts has returned, tempAlertSent is (temperature valid and
\* above 34.0) and humAlertSent is (humidity valid and above 90.0), so that a
\* sample exactly at its limit leaves the flag false; and already when the
\* temperature gate is through, tempAlertSent has that value.  A step of one
\* metric's gate changes neither the other metric's flag nor its history, and
\* whether the gate of a metric begins a send at its test depends on that
\* metric's sample and flag only: it does exactly when the sample is over the
\* limit and the flag is clear.
C40_GatesIndependent ==
  /\ [](/\ pc["sensor"] = "period" =>
             \A m \in Metrics : Flag(m) = C40_Over(m)
        /\ pc["sensor"] = AfterGate("temp") \/ C40_InGate("hum") =>
             tempAlertSent = C40_Over("temp")
        /\ \A m \in Metrics :
             pc["sensor"] = AfterGate(m) /\ data[m] = Reading(Limit(m)) => ~Flag(m))
  /\ [][\A m \in Metrics :
          /\ C40_InGate(m) =>
               /\ Flag(C40_Rest(m))' = Flag(C40_Rest(m))
               /\ gate'[C40_Rest(m)] = gate[C40_Rest(m)]
               /\ did'[C40_Rest(m)] = did[C40_Rest(m)]
          /\ GateCheck(m) =>
               ((tg'["sensor"].at # "idle") <=> (C40_Over(m) /\ ~Flag(m)))]_vars

\* checkWeatherAlerts has returned for a sample with the temperature above its
\* limit and the humidity exactly at its limit, after a cycle in which the
\* humidity was above and the temperature was not: the temperature flag is set
\* and the humidity flag, set in the cycle before, is clear again.
C40_Witness ==
  /\ pc["sensor"] = "period"
  /\ data["temp"] = Reading(350) /\ data["hum"] = Reading(HUM_LIMIT)
  /\ tempAlertSent /\ ~humAlertSent
  /\ gate["hum"].phase = "back" /\ gate["hum"].sends > 0
  /\ gate["temp"].phase = "high" /\ gate["temp"].below > 0

====
